---- MODULE Spec2Model ----
(***************************************************************************)
(* A model of rusty_ytdl's URL-repair core: the balanced-source extractor  *)
(* (cut_after_js), the marker-based locator (between), the cipher          *)
(* transformer (decipher), the n-transformer (ncode), the function         *)
(* extractor and its shared cache (extract_functions, get_functions), the  *)
(* format resolver (parse_video_formats) and the format selector           *)
(* (choose_format).                                                        *)
(*                                                                         *)
(* Text is a sequence of one-byte strings.  Pure functions are operators   *)
(* computed the way the Rust code computes them; every specification draws *)
(* the inputs of one function from bounded sets and applies it.            *)
(***************************************************************************)
EXTENDS Integers, Sequences, FiniteSets, TLC

VARIABLES
    mixed_json,        \* cut_after_js: the argument
    cut_result,        \* cut_after_js: what the call returned
    between_args,      \* between: the arguments <<haystack, left, right>>
    between_result,    \* between: what the call returned
    cipher_cache,      \* decipher: the context slot, Option<(String, Context)>
    decipher_call,     \* decipher: the last call, its arguments and outcome
    decipher_calls,    \* decipher: the number of calls made on the slot
    n_transform_cache, \* ncode: the ValueCache, a set of <<raw n, result>> pairs
    ncode_script,      \* ncode: the (name, source) pair of the batch
    ncode_call,        \* ncode: the last call, its arguments and outcome
    ncode_calls,       \* ncode: the number of calls made on the cache
    extract_body,      \* extract_functions: the player-script body
    extract_result,    \* extract_functions: what the call returned
    choose_formats,    \* choose_format: the caller's format list
    choose_options,    \* choose_format: the VideoOptions
    choose_result,     \* choose_format: what the call returned
    extracted_roles,   \* parse_video_formats: the pairs found in the player script
    parse_info,        \* parse_video_formats: the metadata
    parse_result,      \* parse_video_formats: what the call returned
    FUNCTIONS,         \* get_functions: the shared slot, Option<(String, Vec<(String, String)>)>
    callers,           \* get_functions: each caller's position and locals
    get_functions_calls, \* get_functions: the number of calls started
    guards,            \* get_functions: the lock guards each caller holds across an await
    served_during_fetch, \* get_functions: a hit was served while a fetch was in flight
    batches            \* parse_video_formats: concurrent calls, each with its locals

cutVars      == <<mixed_json, cut_result>>
betweenVars  == <<between_args, between_result>>
decipherVars == <<cipher_cache, decipher_call, decipher_calls>>
ncodeVars    == <<n_transform_cache, ncode_script, ncode_call, ncode_calls>>
extractVars  == <<extract_body, extract_result>>
parseVars    == <<extracted_roles, parse_info, parse_result>>
chooseVars   == <<choose_formats, choose_options, choose_result>>
functionsVars == <<FUNCTIONS, callers, get_functions_calls, guards, served_during_fetch>>
batchVars    == <<batches>>
vars ==
    <<cutVars, betweenVars, decipherVars, ncodeVars, extractVars, parseVars,
      chooseVars, functionsVars, batchVars>>

(***************************************************************************)
(* Bounds of the model.                                                    *)
(***************************************************************************)
MaxCutLen == 5
MaxHaystackLen == 4
MaxAnchorLen == 2
MaxDecipherCalls == 2
MaxNcodeCalls == 3
MaxListLen == 1
MaxFormats == 3
MaxGetFunctionsCalls == 3
MaxBatchLen == 2

(***************************************************************************)
(* Shared helpers.                                                         *)
(***************************************************************************)
\* All sequences over S of length 0..n.
SeqUpTo(S, n) == UNION {[1..k -> S] : k \in 0..n}

\* bytes[i] with Rust's 0-based index.
At(bytes, i) == bytes[i + 1]

\* &s[from..to] with Rust's 0-based half-open range.
Slice(s, from, to) == SubSeq(s, from + 1, to)

NotCalled == [kind |-> "NotCalled"]

(***************************************************************************)
(* cut_after_js (utils.rs).  The result is None, Some(&mixed_json[0..len]) *)
(* or a panic: indexing a byte slice out of bounds aborts the caller.      *)
(***************************************************************************)
CutNone      == [kind |-> "None"]
CutSome(len) == [kind |-> "Some", len |-> len]
CutPanic     == [kind |-> "Panic"]

\* Sentinel index for a scan that indexed past the end of the slice.
OutOfBounds == -1

IsOpenBracket(c)  == c \in {"{", "[", "("}
IsCloseBracket(c) == c \in {"}", "]", ")"}
\* Bytes that TLA+ strings cannot hold literally are named.
DQUOTE    == "dquote"       \* b'"'
SQUOTE    == "squote"       \* b'\''
BACKTICK  == "backtick"     \* the back quote
BACKSLASH == "backslash"    \* the escape byte

IsQuote(c)        == c \in {DQUOTE, SQUOTE, BACKTICK}
\* A token of a player script is one byte or a run of alphanumeric bytes.
Words ==
    {"a", "b", "c", "n", "x", "0", "1", "da", "ma", "nf", "nb", "var",
     "function", "return", "split", "set", "get", "alr", "yes",
     "decodeURIC", "omponent"}

NEWLINE == "\n"

IsAsciiWhitespace(c)   == c \in {" ", NEWLINE}
IsAsciiAlphanumeric(c) == c \in Words

\* The bytes the model draws inputs from.
CutAlphabet == {"{", "}", DQUOTE, BACKSLASH, "/", "*", "a", " "}

\* while bytes[index] != char { if bytes[index] is the escape byte { index += 1 } index += 1 }
\* The index of the closing delimiter, or OutOfBounds.
RECURSIVE SkipDelimited(_, _, _)
SkipDelimited(bytes, index, char) ==
    IF index >= Len(bytes) THEN OutOfBounds
    ELSE IF At(bytes, index) # char
         THEN SkipDelimited(bytes,
                            IF At(bytes, index) = BACKSLASH THEN index + 2 ELSE index + 1,
                            char)
         ELSE index

\* while !(bytes[index] == b'*' && bytes[index + 1] == b'/') { index += 1 }
\* The index of the closing "*/", or OutOfBounds.
RECURSIVE SkipComment(_, _)
SkipComment(bytes, index) ==
    IF index >= Len(bytes) THEN OutOfBounds
    ELSE IF At(bytes, index) = "*"
         THEN IF index + 1 >= Len(bytes) THEN OutOfBounds
              ELSE IF At(bytes, index + 1) = "/" THEN index
                   ELSE SkipComment(bytes, index + 1)
         ELSE SkipComment(bytes, index + 1)

\* The regex guard: last_significant.map(|x| !x.is_ascii_alphanumeric()).unwrap_or(false)
\* last_significant is "" for Option::None.
RegexGuard(last_significant) ==
    last_significant # "" /\ ~IsAsciiAlphanumeric(last_significant)

\* The scanning loop: while nest > 0 || index == 0 { ... }
RECURSIVE CutLoop(_, _, _, _)
CutLoop(bytes, index, nest, last_significant) ==
    IF ~(nest > 0 \/ index = 0)
    THEN \* after the loop
         IF index = 1 THEN CutNone
         ELSE IF index > Len(bytes) THEN CutPanic
         ELSE CutSome(index)
    ELSE IF index >= Len(bytes) THEN CutNone
    ELSE LET char == At(bytes, index) IN
         IF IsOpenBracket(char)
         THEN CutLoop(bytes, index + 1, nest + 1, last_significant)
         ELSE IF IsCloseBracket(char)
         THEN CutLoop(bytes, index + 1, nest - 1, last_significant)
         ELSE IF IsQuote(char)
         THEN LET close == SkipDelimited(bytes, index + 1, char) IN
              IF close = OutOfBounds THEN CutPanic
              ELSE CutLoop(bytes, close + 1, nest, last_significant)
         ELSE IF char = "/" /\ index + 1 >= Len(bytes)
         THEN CutPanic      \* the guard bytes[index + 1] == b'*' indexes past the end
         ELSE IF char = "/" /\ At(bytes, index + 1) = "*"
         THEN LET close == SkipComment(bytes, index + 2) IN
              IF close = OutOfBounds THEN CutPanic
              ELSE CutLoop(bytes, close + 2, nest, last_significant)
         ELSE IF char = "/" /\ RegexGuard(last_significant)
         THEN LET close == SkipDelimited(bytes, index + 1, char) IN
              IF close = OutOfBounds THEN CutPanic
              ELSE CutLoop(bytes, close + 1, nest, last_significant)
         ELSE IF ~IsAsciiWhitespace(char)
         THEN CutLoop(bytes, index + 1, nest, char)
         ELSE CutLoop(bytes, index + 1, nest, last_significant)

cut_after_js(bytes) == CutLoop(bytes, 0, 0, "")

CutInputs == SeqUpTo(CutAlphabet, MaxCutLen)

IdleCut == mixed_json = <<>> /\ cut_result = NotCalled

StartCut == mixed_json \in CutInputs /\ cut_result = NotCalled

CutAfterJsCall ==
    /\ cut_result = NotCalled
    /\ cut_result' = cut_after_js(mixed_json)
    /\ UNCHANGED mixed_json

NotFound == -1

(***************************************************************************)
(* The lexical reference the extractor is specified against: the nesting   *)
(* depth of a text in which brackets inside quoted strings, block comments *)
(* and regex literals do not count.  A '/' that does not open a comment    *)
(* opens a regex literal unless the last significant (non-whitespace) byte *)
(* before it is alphanumeric.  It is total: an exhausted text is None.     *)
(***************************************************************************)
RefUncovered == [kind |-> "Uncovered"]

\* The index of the first unescaped delimiter char at or after index, or NotFound.
RECURSIVE RefClose(_, _, _)
RefClose(s, index, char) ==
    IF index >= Len(s) THEN NotFound
    ELSE IF At(s, index) = char THEN index
    ELSE IF At(s, index) = BACKSLASH THEN RefClose(s, index + 2, char)
    ELSE RefClose(s, index + 1, char)

\* The index of the first "*/" at or after index, or NotFound.
RefCommentEnd(s, index) ==
    LET ends == {i \in index..(Len(s) - 2) : At(s, i) = "*" /\ At(s, i + 1) = "/"}
    IN IF ends = {} THEN NotFound ELSE CHOOSE i \in ends : \A j \in ends : i <= j

\* Scans code from index at nesting depth depth (> 0); sig is the last
\* significant byte seen.
RECURSIVE RefScan(_, _, _, _)
RefScan(s, index, depth, sig) ==
    IF index >= Len(s) THEN CutNone
    ELSE LET c == At(s, index) IN
         IF IsOpenBracket(c) THEN RefScan(s, index + 1, depth + 1, c)
         ELSE IF IsCloseBracket(c)
         THEN IF depth = 1 THEN CutSome(index + 1)
              ELSE RefScan(s, index + 1, depth - 1, c)
         ELSE IF IsQuote(c)
         THEN LET close == RefClose(s, index + 1, c) IN
              IF close = NotFound THEN CutNone
              ELSE RefScan(s, close + 1, depth, c)
         ELSE IF c = "/" /\ index + 1 < Len(s) /\ At(s, index + 1) = "*"
         THEN LET close == RefCommentEnd(s, index + 2) IN
              IF close = NotFound THEN CutNone
              ELSE RefScan(s, close + 2, depth, sig)
         ELSE IF c = "/" /\ index + 1 < Len(s) /\ At(s, index + 1) = "/"
         THEN RefUncovered      \* a line comment: outside what is specified
         ELSE IF c = "/" /\ ~IsAsciiAlphanumeric(sig)
         THEN LET close == RefClose(s, index + 1, "/") IN
              IF close = NotFound THEN CutNone
              ELSE RefScan(s, close + 1, depth, "/")
         ELSE IF IsAsciiWhitespace(c) THEN RefScan(s, index + 1, depth, sig)
         ELSE RefScan(s, index + 1, depth, c)

\* The minimal balanced prefix of s, if s begins with an opening bracket.
RefCut(s) ==
    IF Len(s) = 0 \/ ~IsOpenBracket(At(s, 0)) THEN CutNone
    ELSE RefScan(s, 1, 1, At(s, 0))

(***************************************************************************)
(* between (utils.rs).                                                     *)
(***************************************************************************)
\* str::find: the 0-based index of the first occurrence of pat in s at or
\* after from, scanning left to right; NotFound if there is none.
RECURSIVE FindFrom(_, _, _)
FindFrom(s, pat, from) ==
    IF from + Len(pat) > Len(s) THEN NotFound
    ELSE IF Slice(s, from, from + Len(pat)) = pat THEN from
    ELSE FindFrom(s, pat, from + 1)

Find(s, pat) == FindFrom(s, pat, 0)

\* between with the right anchor searched from the start of the left anchor's
\* match instead of its end.
between_RightFromMatchStart(haystack, left, right) ==
    LET matched == Find(haystack, left) IN
    IF matched = NotFound THEN <<>>
    ELSE LET pos == matched + Len(left)
             matched2 == FindFrom(haystack, right, matched)
         IN IF matched2 = NotFound \/ matched2 < pos THEN <<>>
            ELSE Slice(haystack, pos, matched2)

between(haystack, left, right) ==
    LET matched == Find(haystack, left) IN
    IF matched = NotFound THEN <<>>
    ELSE LET pos == matched + Len(left)
             remaining_haystack == Slice(haystack, pos, Len(haystack))
             matched2 == Find(remaining_haystack, right)
         IN IF matched2 = NotFound THEN <<>>
            ELSE Slice(haystack, pos, pos + matched2)

BetweenAlphabet == {"a", "b"}

BetweenInputs ==
    SeqUpTo(BetweenAlphabet, MaxHaystackLen)
        \X SeqUpTo(BetweenAlphabet, MaxAnchorLen)
        \X SeqUpTo(BetweenAlphabet, MaxAnchorLen)

IdleBetween == between_args = <<>> /\ between_result = NotCalled

StartBetween == between_args \in BetweenInputs /\ between_result = NotCalled

BetweenCall ==
    /\ between_result = NotCalled
    /\ between_result' =
           [kind |-> "Str",
            s |-> between(between_args[1], between_args[2], between_args[3])]
    /\ UNCHANGED between_args

(***************************************************************************)
(* Strings handled by the transformers.  A Rust string is one of           *)
(*   Text(t)   plain text, t a sequence of tokens (a token is a run of     *)
(*             alphanumeric bytes, DQUOTE or BACKSLASH);                    *)
(*   Qs(c)     a query-encoded text, c its '&'-separated components        *)
(*             [k |-> key, v |-> decoded value];                            *)
(*   Url(..)   the text of an absolute URL: its part before '?', its query *)
(*             pairs <<name, value>>, and whether the text is already in   *)
(*             the form url::Url serialises (norm).                         *)
(* A decoded field that is not a flat string (s[a]=1) is Nested.           *)
(***************************************************************************)
Text(t) == [kind |-> "text", txt |-> t]
Qs(c) == [kind |-> "qs", comps |-> c]
Url(base, query, norm) == [kind |-> "url", base |-> base, query |-> query, norm |-> norm]
Nested == [kind |-> "nested"]
EmptyString == Text(<<>>)

Panicked == [kind |-> "panic"]

K_url == <<"url">>
K_s == <<"s">>
K_sp == <<"sp">>
K_n == <<"n">>

\* The components serde_qs sees in a text.  It splits the whole text at '&'
\* and '=': given a full URL, the first key is everything up to the first
\* '=', the part before '?' included.
QsComponents(str) ==
    CASE str.kind = "qs" -> str.comps
      [] str.kind = "url" ->
            IF str.query = <<>> THEN <<[k |-> <<str.base>>, v |-> EmptyString]>>
            ELSE [i \in 1..Len(str.query) |->
                     [k |-> IF i = 1 THEN <<str.base, "?">> \o str.query[i][1]
                                     ELSE str.query[i][1],
                      v |-> Text(str.query[i][2])]]
      [] OTHER -> IF str.txt = <<>> THEN <<>>
                  ELSE <<[k |-> str.txt, v |-> EmptyString]>>

\* serde_qs::from_str(..) is Ok: it rejects a text that gives one key twice.
QsDecodes(str) ==
    LET c == QsComponents(str) IN
    \A i, j \in 1..Len(c) : c[i].k = c[j].k => i = j

\* serde_qs::from_str(..).unwrap() when it is Ok: the decoded fields.
QsMap(str) ==
    LET c == QsComponents(str) IN
    [key \in {c[i].k : i \in 1..Len(c)} |->
        (CHOOSE x \in {c[i] : i \in 1..Len(c)} : x.k = key).v]

\* .and_then(|x| x.as_str()).unwrap_or("") on a decoded field.
AsStr(v) == IF v.kind = "nested" THEN EmptyString ELSE v

\* url::Url::parse(..) is Ok.
UrlParses(str) == str.kind = "url"

\* return_url.query_pairs_mut().clear().extend_pairs(&query); return_url.to_string()
UrlWithQuery(return_url, query) == Url(return_url.base, query, TRUE)

(***************************************************************************)
(* extract_functions (utils.rs): the (name, source) pairs cut out of a     *)
(* player-script body.  A body is a sequence of tokens.                    *)
(***************************************************************************)
\* r#"a=a.split("");"#
SplitMarker == <<"a", "=", "a", ".", "split", "(", DQUOTE, DQUOTE, ")", ";">>
\* r#"a.set("alr","yes");c&&(c="#   and   "(decodeURIC"
DecipherLeft ==
    <<"a", ".", "set", "(", DQUOTE, "alr", DQUOTE, ",", DQUOTE, "yes", DQUOTE,
      ")", ";", "c", "&&", "(", "c", "=">>
DecipherRight == <<"(", "decodeURIC">>
\* r#"&&(b=a.get("n"))&&(b="#   and   "(b)"
NcodeLeft ==
    <<"&&", "(", "b", "=", "a", ".", "get", "(", DQUOTE, "n", DQUOTE, ")", ")",
      "&&", "(", "b", "=">>
NcodeRight == <<"(", "b", ")">>
\* "=function(a)"
FunctionA == <<"=", "function", "(", "a", ")">>

Vec(v) == [kind |-> "Vec", v |-> v]

\* cut_after_js(sub_body).unwrap_or(default): the cut text, or the panic of
\* cut_after_js.
CutOr(sub_body, default) ==
    LET cut == cut_after_js(sub_body) IN
    CASE cut = CutPanic -> Panicked
      [] cut = CutNone -> Text(default)
      [] OTHER -> Text(Slice(sub_body, 0, cut.len))

\* function_body.retain(|c| c != '\n')
RetainNotNewline(t) == SelectSeq(t, LAMBDA c : c # NEWLINE)

extract_manipulations(body, caller) ==
    LET function_name == between(caller, SplitMarker, <<".">>) IN
    IF function_name = <<>> THEN EmptyString
    ELSE
    LET function_start == <<"var", " ">> \o function_name \o <<"=", "{">>
        ndx == Find(body, function_start)
    IN
    IF ndx = NotFound THEN EmptyString
    ELSE
    LET sub_body == Slice(body, ndx + Len(function_start) - 1, Len(body))
        cut_after_sub_body == CutOr(sub_body, <<"null">>)
    IN
    IF cut_after_sub_body = Panicked THEN Panicked
    ELSE Text(<<"var", " ">> \o function_name \o <<"=">> \o cut_after_sub_body.txt)

\* The pairs extract_decipher pushes (none or one), or the panic.
extract_decipher(body) ==
    LET function_name == between(body, DecipherLeft, DecipherRight) IN
    IF function_name = <<>> THEN Vec(<<>>)
    ELSE
    LET function_start == function_name \o FunctionA
        ndx == Find(body, function_start)
    IN
    IF ndx = NotFound THEN Vec(<<>>)
    ELSE
    LET sub_body == Slice(body, ndx + Len(function_start), Len(body))
        cut_after_sub_body == CutOr(sub_body, <<"{", "}">>)
    IN
    IF cut_after_sub_body = Panicked THEN Panicked
    ELSE
    LET function_body == <<"var", " ">> \o function_start \o cut_after_sub_body.txt
        manipulated_body == extract_manipulations(body, function_body)
    IN
    IF manipulated_body = Panicked THEN Panicked
    ELSE Vec(<<<<function_name,
                 RetainNotNewline(manipulated_body.txt \o <<";">>
                                     \o function_body \o <<";">>)>>>>)

\* function_name.split('[').first(): the tokens before the first "[".
BeforeBracket(name) ==
    LET at == Find(name, <<"[">>) IN
    IF at = NotFound THEN name ELSE Slice(name, 0, at)

\* The pairs extract_ncode pushes (none or one), or the panic.
extract_ncode(body) ==
    LET first_name == between(body, NcodeLeft, NcodeRight)
        left_name == <<"var", " ">> \o BeforeBracket(first_name) \o <<"=", "[">>
        function_name ==
            IF Find(first_name, <<"[">>) # NotFound
            THEN between(body, left_name, <<"]">>) ELSE first_name
    IN
    IF function_name = <<>> THEN Vec(<<>>)
    ELSE
    LET function_start == function_name \o FunctionA
        ndx == Find(body, function_start)
    IN
    IF ndx = NotFound THEN Vec(<<>>)
    ELSE
    LET sub_body == Slice(body, ndx + Len(function_start), Len(body))
        cut_after_sub_body == CutOr(sub_body, <<"{", "}">>)
    IN
    IF cut_after_sub_body = Panicked THEN Panicked
    ELSE Vec(<<<<function_name,
                 RetainNotNewline(<<"var", " ">> \o function_start
                                     \o cut_after_sub_body.txt \o <<";">>)>>>>)

\* extract_decipher pushes first, extract_ncode second, onto one vector.
extract_functions(body) ==
    LET d == extract_decipher(body) IN
    IF d = Panicked THEN Panicked
    ELSE LET nc == extract_ncode(body) IN
         IF nc = Panicked THEN Panicked
         ELSE Vec(d.v \o nc.v)

\* The fragments player-script bodies are made of: the call that names the
\* decipher function da; its definition (complete, with a line break; left
\* open; with an unterminated regex); the helper object ma; the call that
\* names the n-transform function (directly, or through the array nb); the
\* array; the definition of nf (complete; with a regex holding a bracket;
\* with an unterminated regex).
DecipherUses ==
    {<<>>,
     DecipherLeft \o <<"da">> \o DecipherRight
         \o <<"omponent", "(", "c", ")", ")", ";">>}
DecipherDefs ==
    {<<>>,
     <<"da">> \o FunctionA \o <<"{">> \o SplitMarker
         \o <<"ma", ".", "x", "(", "a", ")", ";", NEWLINE, "return", " ", "a", "}", ";">>,
     <<"da">> \o FunctionA \o <<"{", "a", ";">>,
     <<"da">> \o FunctionA \o <<"{", "/", "{", "/", "}", ";">>}
ManipDefs == {<<>>, <<"var", " ", "ma", "=", "{", "x", ":", "1", "}", ";">>}
NcodeUses ==
    {<<>>,
     NcodeLeft \o <<"nf">> \o NcodeRight \o <<";">>,
     NcodeLeft \o <<"nb", "[", "0", "]">> \o NcodeRight \o <<";">>}
NcodeArrays == {<<>>, <<"var", " ", "nb", "=", "[", "nf", "]", ";">>}
NcodeDefs ==
    {<<>>,
     <<"nf">> \o FunctionA \o <<"{", "return", " ", "a", "}", ";">>,
     <<"nf">> \o FunctionA \o <<"{", "/", "}", "/", "}", ";">>,
     <<"nf">> \o FunctionA \o <<"{", "a", "=", "/">>}

\* The calls come first and the definitions last, as in a player script.
ExtractInputs ==
    {du \o nu \o na \o md \o nd \o dd :
        du \in DecipherUses, dd \in DecipherDefs, md \in ManipDefs,
        nu \in NcodeUses, na \in NcodeArrays, nd \in NcodeDefs}

IdleExtract == extract_body = <<>> /\ extract_result = NotCalled

StartExtract == extract_body \in ExtractInputs /\ extract_result = NotCalled

ExtractFunctionsCall ==
    /\ extract_result = NotCalled
    /\ extract_result' = extract_functions(extract_body)
    /\ UNCHANGED extract_body

(***************************************************************************)
(* The script engine (boa).  A script source either compiles or not; a    *)
(* compiled context remembers the source it was compiled from.  The        *)
(* extracted function is called by evaluating the text                    *)
(*     {func_name}("{args}")                                               *)
(* so the argument is read back as the body of a JavaScript string literal.*)
(***************************************************************************)
EvalErr    == [kind |-> "Err"]
JsNonStr   == [kind |-> "NonStr"]
JsBadUtf16 == [kind |-> "BadUtf16"]
JsStr(v)   == [kind |-> "Str", v |-> v]

CompilingSources == {"srcA", "srcB"}
FailingSource == "srcBad"

\* context.eval(Source::from_bytes(source)) is Ok.
Compiles(source) == source # FailingSource

NewContext(source) == [compiled_from |-> source]

\* What the function func_name of a compiled script returns on the string
\* value arg: f is the transform (a string that depends on the script and on
\* the argument), g returns a number, k a string that is not valid UTF-16,
\* and any other name is not defined (the call throws).
ScriptFunction(source, func_name, arg) ==
    IF source \notin CompilingSources THEN EvalErr
    ELSE CASE func_name = "f" -> JsStr(<<source>> \o arg)
           [] func_name = "g" -> JsNonStr
           [] func_name = "k" -> JsBadUtf16
           [] OTHER -> EvalErr

\* Whether the tokens t, put between double quotes, are not one string
\* literal: an unescaped quote ends the literal early, a trailing backslash
\* escapes the closing quote.
RECURSIVE LiteralBreaks(_)
LiteralBreaks(t) ==
    IF t = <<>> THEN FALSE
    ELSE IF Head(t) = DQUOTE THEN TRUE
    ELSE IF Head(t) = BACKSLASH
         THEN Len(t) = 1 \/ LiteralBreaks(SubSeq(t, 3, Len(t)))
         ELSE LiteralBreaks(Tail(t))

\* The string value the literal denotes: a backslash escape stands for the
\* token after it.
RECURSIVE LiteralValue(_)
LiteralValue(t) ==
    IF t = <<>> THEN <<>>
    ELSE IF Head(t) = BACKSLASH /\ Len(t) > 1
         THEN <<t[2]>> \o LiteralValue(SubSeq(t, 3, Len(t)))
         ELSE <<Head(t)>> \o LiteralValue(Tail(t))

\* context.eval(Source::from_bytes(&format!(r#"{func_name}("{args}")"#)))
EvalCall(context, func_name, args) ==
    IF LiteralBreaks(args) THEN EvalErr
    ELSE ScriptFunction(context.compiled_from, func_name, LiteralValue(args))

(***************************************************************************)
(* decipher (parser/cipher.rs).  script is the pair (name, source);        *)
(* cipher_cache is None or Some((key, context)).  The outcome records the  *)
(* returned string (or the panic), the slot afterwards and whether the     *)
(* call compiled a source or evaluated a call expression.                  *)
(***************************************************************************)
NoContext == [kind |-> "None"]
SomeContext(key, context) == [kind |-> "Some", key |-> key, context |-> context]

DecipherOut(ret, cache, compiled, invoked) ==
    [ret |-> ret, cache |-> cache, compiled |-> compiled, invoked |-> invoked]

\* The fallback returning the input whether or not there is a url field.
DecipherFallback_AlwaysInput(url, args) == url

\* The fallback returning the input when the url field is no URL.
DecipherFallback_InputUnlessUrl(url, args) ==
    IF K_url \notin DOMAIN args \/ ~UrlParses(AsStr(args[K_url]))
    THEN url ELSE AsStr(args[K_url])

\* The fallback block repeated in decipher: the input when the decoded
\* fields hold no url, the url field otherwise.
DecipherFallback(url, args) ==
    IF K_url \notin DOMAIN args THEN url ELSE AsStr(args[K_url])

\* Lines 102-127: the url field with the parameter query_name set to result.
DecipherRebuild(args, result) ==
    LET return_url == AsStr(args[K_url])
        query_name ==
            IF K_sp \in DOMAIN args /\ args[K_sp].kind # "nested"
            THEN args[K_sp].txt ELSE <<"signature">>
        pairs == return_url.query
        query == [i \in 1..Len(pairs) |->
                     IF pairs[i][1] = query_name THEN <<pairs[i][1], result>>
                     ELSE pairs[i]]
    IN UrlWithQuery(return_url,
           IF \E i \in 1..Len(pairs) : pairs[i][1] = query_name
           THEN query ELSE Append(query, <<query_name, result>>))

\* A slot match that ignores the key.
SlotReuses_AnyKey(cache, source) == cache.kind = "Some"

\* Some((ref cache_key, ..)) if cache_key == &decipher_script_string.1
SlotReuses(cache, source) == cache.kind = "Some" /\ cache.key = source

\* A failed compile that empties the slot.
SlotAfterFailedCompile_Evicted(cache) == NoContext

\* Lines 33-40: the fallback returns before the assignment to *cipher_cache
\* at line 41, so the slot keeps what it held.
SlotAfterFailedCompile(cache) == cache

decipher(url, script, cache) ==
    IF ~QsDecodes(url) THEN DecipherOut(Panicked, cache, FALSE, FALSE)
    ELSE
    LET args == QsMap(url)
        fallback == DecipherFallback(url, args)
    IN
    IF K_s \notin DOMAIN args \/ script[2] = ""
    THEN DecipherOut(fallback, cache, FALSE, FALSE)
    ELSE
    LET reuse == SlotReuses(cache, script[2]) IN
    IF ~reuse /\ ~Compiles(script[2])
    THEN DecipherOut(fallback, SlotAfterFailedCompile(cache), TRUE, FALSE)
    ELSE
    LET cache2 == IF reuse THEN cache
                  ELSE SomeContext(script[2], NewContext(script[2]))
        result == EvalCall(cache2.context, script[1], AsStr(args[K_s]).txt)
    IN
    IF result.kind # "Str"
    THEN DecipherOut(fallback, cache2, ~reuse, TRUE)
    ELSE IF K_url \notin DOMAIN args \/ ~UrlParses(AsStr(args[K_url]))
    THEN DecipherOut(fallback, cache2, ~reuse, TRUE)
    ELSE DecipherOut(DecipherRebuild(args, result.v), cache2, ~reuse, TRUE)

(***************************************************************************)
(* Calls of decipher on one context slot (the slot parse_video_formats     *)
(* creates empty and hands to every call of a batch).                      *)
(***************************************************************************)
\* The url field of a cipher query string: a URL with a parameter foo, a URL
\* that already has the parameter sig before foo, a text that is no URL, and
\* a field that is not a flat string.
UrlFields ==
    {Url("https://x", <<<<<<"foo">>, <<"1">>>>>>, TRUE),
     Url("https://x", <<<<<<"sig">>, <<"old">>>>, <<<<"foo">>, <<"1">>>>>>, TRUE),
     Text(<<"nourl">>),
     Nested}

\* The s field: plain, with a double quote, with a backslash escape.
SFields == {Text(<<"abc">>), Text(<<"a", DQUOTE, "b">>), Text(<<BACKSLASH, "a">>)}

SpFields == {Text(<<"sig">>)}

Absent == [kind |-> "absent"]

\* The components of the fields that are present, in the order url, s, sp.
FieldComponents(u, s, sp) ==
    (IF u = Absent THEN <<>> ELSE <<[k |-> K_url, v |-> u]>>)
        \o (IF s = Absent THEN <<>> ELSE <<[k |-> K_s, v |-> s]>>)
        \o (IF sp = Absent THEN <<>> ELSE <<[k |-> K_sp, v |-> sp]>>)

\* Cipher query strings: every combination of the fields; two with an s or
\* sp field that is not a flat string; two with a second s field, which
\* serde_qs does not decode.
DecipherInputs ==
    {Qs(FieldComponents(u, s, sp)) :
        u \in UrlFields \cup {Absent},
        s \in SFields \cup {Absent},
        sp \in SpFields \cup {Absent}}
    \cup {Qs(FieldComponents(u, Nested, Absent)) : u \in {Absent, Text(<<"nourl">>)}}
    \cup {Qs(FieldComponents(u, Text(<<"abc">>), Nested)) :
             u \in {Url("https://x", <<<<<<"foo">>, <<"1">>>>>>, TRUE)}}
    \cup {Qs(FieldComponents(u, Text(<<"abc">>), Absent)
                \o <<[k |-> K_s, v |-> Text(<<"dup">>)]>>) :
             u \in {Absent, Text(<<"nourl">>)}}

\* (name, source) pairs: no function extracted; the transform f, a function
\* returning a number, one returning an ill-formed string and an undefined
\* name in a script that compiles; the transform of another script; a
\* script that does not compile.
FunctionNames == {"f", "g", "k", "h"}
DecipherScripts ==
    {<<"", "">>}
        \cup (FunctionNames \X {"srcA"})
        \cup ({"f", "h"} \X {"srcB"})
        \cup {<<"f", FailingSource>>}

IdleDecipher ==
    cipher_cache = NoContext /\ decipher_call = NotCalled /\ decipher_calls = 0

StartDecipher == IdleDecipher

\* A panic unwinds through the batch: no further call is made.
DecipherAborted == decipher_call # NotCalled /\ decipher_call.ret = Panicked

DecipherCall ==
    /\ decipher_calls < MaxDecipherCalls
    /\ ~DecipherAborted
    /\ \E url \in DecipherInputs, script \in DecipherScripts :
          LET out == decipher(url, script, cipher_cache) IN
          /\ cipher_cache' = out.cache
          /\ decipher_call' =
                 [kind |-> "Called", url |-> url, script |-> script,
                  cache_before |-> cipher_cache, ret |-> out.ret,
                  compiled |-> out.compiled, invoked |-> out.invoked]
    /\ decipher_calls' = decipher_calls + 1

(***************************************************************************)
(* ncode (parser/ncode.rs).  The cache is a HashMap<String, String>, here  *)
(* the set of its <<key, value>> entries.                                  *)
(***************************************************************************)
CacheKeys(cache) == {e[1] : e \in cache}
CacheGet(cache, key) == (CHOOSE e \in cache : e[1] = key)[2]
\* An insert that forgets every other entry.
CacheInsert_DropOthers(cache, key, value) == {<<key, value>>}

\* HashMap::insert: the entry of the key, if any, is replaced.
CacheInsert(cache, key, value) ==
    {e \in cache : e[1] # key} \cup {<<key, value>>}

NcodeOut(ret, cache, compiled, invoked) ==
    [ret |-> ret, cache |-> cache, compiled |-> compiled, invoked |-> invoked]

\* Lines 88-112: the URL with every parameter named n set to the result, or
\* the input when it is not the text of a URL.
NcodeRebuild(url, n_transform_result) ==
    IF ~UrlParses(url) THEN url
    ELSE UrlWithQuery(url,
             [i \in 1..Len(url.query) |->
                 IF url.query[i][1] = K_n
                 THEN <<url.query[i][1], n_transform_result>>
                 ELSE url.query[i]])

ncode(url, script, cache) ==
    \* get_components: serde_qs::from_str(..).unwrap(); the modelled texts hold
    \* no percent escape, so decode(url) leaves them as they are.
    IF ~QsDecodes(url) THEN NcodeOut(Panicked, cache, FALSE, FALSE)
    ELSE
    LET components == QsMap(url) IN
    IF K_n \notin DOMAIN components \/ script[2] = ""
    THEN NcodeOut(url, cache, FALSE, FALSE)
    ELSE
    LET n_transform_value == components[K_n].txt IN
    IF n_transform_value \in CacheKeys(cache)
    THEN NcodeOut(NcodeRebuild(url, CacheGet(cache, n_transform_value)),
                  cache, FALSE, FALSE)
    ELSE IF ~Compiles(script[2])
    THEN \* create_transform_script: context.eval(..).unwrap()
         NcodeOut(Panicked, cache, TRUE, FALSE)
    ELSE
    LET result == EvalCall(NewContext(script[2]), script[1], n_transform_value) IN
    IF result.kind = "Err"
    THEN \* execute_transform_script: context.eval(..).unwrap()
         NcodeOut(Panicked, cache, TRUE, TRUE)
    ELSE IF result.kind # "Str"
    THEN NcodeOut(url, cache, TRUE, TRUE)
    ELSE NcodeOut(NcodeRebuild(url, result.v),
                  CacheInsert(cache, n_transform_value, result.v), TRUE, TRUE)

(***************************************************************************)
(* Calls of ncode on one cache with the batch's n-transform pair.          *)
(***************************************************************************)
Pair(name, value) == <<<<name>>, value>>

\* URLs with n after another parameter (two URLs share n = abc), with n as
\* the first parameter, with another n, with an n holding a double quote,
\* without n, not in serialised form; a text with n that is no URL; "".
NcodeInputs ==
    {Url("https://x/v", <<Pair("a", <<"1">>), Pair("n", <<"abc">>)>>, TRUE),
     Url("https://x/v", <<Pair("a", <<"2">>), Pair("n", <<"abc">>)>>, TRUE),
     Url("https://x/v", <<Pair("a", <<"1">>), Pair("n", <<"abc">>)>>, FALSE),
     Url("https://x/v", <<Pair("n", <<"abc">>), Pair("a", <<"1">>)>>, TRUE),
     Url("https://x/v", <<Pair("a", <<"1">>), Pair("n", <<"xyz">>)>>, TRUE),
     Url("https://x/v", <<Pair("a", <<"1">>), Pair("n", <<"a", DQUOTE, "b">>)>>, TRUE),
     Url("https://x/v", <<Pair("a", <<"1">>)>>, TRUE),
     Url("https://x/v", <<>>, FALSE),
     Qs(<<[k |-> <<"a">>, v |-> Text(<<"1">>)], [k |-> K_n, v |-> Text(<<"abc">>)]>>),
     EmptyString}

NcodeScripts ==
    {<<"", "">>} \cup (FunctionNames \X {"srcA"}) \cup {<<"f", FailingSource>>}

IdleNcode ==
    /\ n_transform_cache = {}
    /\ ncode_script = <<"", "">>
    /\ ncode_call = NotCalled
    /\ ncode_calls = 0

StartNcode ==
    /\ n_transform_cache = {}
    /\ ncode_script \in NcodeScripts
    /\ ncode_call = NotCalled
    /\ ncode_calls = 0

\* A panic unwinds through the batch: no further call is made.
NcodeAborted == ncode_call # NotCalled /\ ncode_call.ret = Panicked

NcodeCall ==
    /\ ncode_calls < MaxNcodeCalls
    /\ ~NcodeAborted
    /\ \E url \in NcodeInputs :
          LET out == ncode(url, ncode_script, n_transform_cache) IN
          /\ n_transform_cache' = out.cache
          /\ ncode_call' =
                 [kind |-> "Called", url |-> url,
                  cache_before |-> n_transform_cache, ret |-> out.ret,
                  compiled |-> out.compiled, invoked |-> out.invoked]
    /\ ncode_calls' = ncode_calls + 1
    /\ UNCHANGED ncode_script

(***************************************************************************)
(* set_download_url and parse_video_formats (parser/mod.rs).  A format     *)
(* record is a JSON object with the fields url, signatureCipher and cipher *)
(* (a JSON string, a JSON value that is no string, or absent), the         *)
(* descriptive fields the flags are derived from, and whether its other    *)
(* fields fit the VideoFormat schema; or a JSON value that is no object.   *)
(***************************************************************************)
JsonNumber == [kind |-> "number"]

Record(id, url, signatureCipher, cipher, qualityLabel, audioBitrate, audioQuality, schema) ==
    [kind |-> "object", id |-> id, url |-> url,
     signatureCipher |-> signatureCipher, cipher |-> cipher,
     qualityLabel |-> qualityLabel, audioBitrate |-> audioBitrate,
     audioQuality |-> audioQuality, schema |-> schema]

\* .as_str().unwrap_or("") on a JSON value.
JsonAsStr(v) == IF v.kind = "number" THEN EmptyString ELSE v

\* url::Url::parse(text).unwrap().to_string(): the serialised form.
UrlToString(u) == Url(u.base, u.query, TRUE)

\* One call of a transformer, as set_download_url makes it.
Invocation(fn, arg, script) == [fn |-> fn, arg |-> arg, script |-> script]

SetUrlOut(ret, n_cache, slot, log) ==
    [ret |-> ret, n_cache |-> n_cache, slot |-> slot, log |-> log]

\* return_format.get("url").unwrap_or(get("signatureCipher").unwrap_or(
\*     get("cipher").unwrap_or(&""))).as_str().unwrap_or("")
ChosenSource(format) ==
    JsonAsStr(IF format.url # Absent THEN format.url
              ELSE IF format.signatureCipher # Absent THEN format.signatureCipher
              ELSE IF format.cipher # Absent THEN format.cipher
              ELSE EmptyString)

set_download_url(format, functions, n_transform_cache_, cipher_cache_) ==
    LET empty_script == <<"", "">>
        decipher_script_string ==
            IF Len(functions) >= 1 THEN functions[1] ELSE empty_script
        n_transform_script_string ==
            IF Len(functions) >= 2 THEN functions[2] ELSE empty_script
        cipher == format.url = Absent
        url == ChosenSource(format)
        d == IF cipher THEN decipher(url, decipher_script_string, cipher_cache_)
             ELSE DecipherOut(url, cipher_cache_, FALSE, FALSE)
        dlog == IF cipher THEN <<Invocation("decipher", url, decipher_script_string)>> ELSE <<>>
    IN
    IF d.ret = Panicked
    THEN SetUrlOut(Panicked, n_transform_cache_, cipher_cache_, dlog)
    ELSE
    LET nc == ncode(d.ret, n_transform_script_string, n_transform_cache_)
        log == Append(dlog, Invocation("ncode", d.ret, n_transform_script_string))
    IN
    IF nc.ret = Panicked
    THEN SetUrlOut(Panicked, n_transform_cache_, d.cache, log)
    ELSE IF ~UrlParses(nc.ret)
    THEN \* url::Url::parse(..).unwrap()
         SetUrlOut(Panicked, nc.cache, d.cache, log)
    ELSE SetUrlOut(UrlToString(nc.ret), nc.cache, d.cache, log)

\* The URL texts the regular expressions of add_format_meta match:
\* \bsource[/=]yt_live_broadcast\b, /manifest/hls_(variant|playlist)/ and
\* /manifest/dash/.
LiveBases == {"https://x/source/yt_live_broadcast/v"}
HlsBases == {"https://x/manifest/hls_variant/v"}
DashBases == {"https://x/manifest/dash/v"}

IsLiveText(u) ==
    /\ u.kind = "url"
    /\ \/ u.base \in LiveBases
       \/ \E i \in 1..Len(u.query) :
             u.query[i] = <<<<"source">>, <<"yt_live_broadcast">>>>
IsHlsText(u) == u.kind = "url" /\ u.base \in HlsBases
IsDashText(u) == u.kind = "url" /\ u.base \in DashBases

\* The record with the three URL flags read from the url it came with.
add_format_meta_RawUrl(x, new_url) ==
    [kind |-> "object", id |-> x.id, url |-> new_url,
     signatureCipher |-> Absent, cipher |-> Absent,
     qualityLabel |-> x.qualityLabel, audioBitrate |-> x.audioBitrate,
     audioQuality |-> x.audioQuality, schema |-> x.schema,
     hasVideo |-> x.qualityLabel,
     hasAudio |-> (x.audioBitrate \/ x.audioQuality),
     isLive |-> IsLiveText(JsonAsStr(x.url)),
     isHLS |-> IsHlsText(JsonAsStr(x.url)),
     isDashMPD |-> IsDashText(JsonAsStr(x.url))]

\* The record after the loop body of parse_video_formats: the cipher fields
\* removed, url replaced, the flags of add_format_meta inserted.
add_format_meta(x, new_url) ==
    [kind |-> "object", id |-> x.id, url |-> new_url,
     signatureCipher |-> Absent, cipher |-> Absent,
     qualityLabel |-> x.qualityLabel, audioBitrate |-> x.audioBitrate,
     audioQuality |-> x.audioQuality, schema |-> x.schema,
     hasVideo |-> x.qualityLabel,
     hasAudio |-> (x.audioBitrate \/ x.audioQuality),
     isLive |-> IsLiveText(new_url),
     isHLS |-> IsHlsText(new_url),
     isDashMPD |-> IsDashText(new_url)]

\* serde_json::from_value::<VideoFormat>(format) is Ok.
IsWellFormated(x) == x.kind = "object" /\ x.schema

VideoFormatOf(x) ==
    [id |-> x.id, url |-> x.url, has_video |-> x.hasVideo,
     has_audio |-> x.hasAudio, is_live |-> x.isLive, is_hls |-> x.isHLS,
     is_dash_mpd |-> x.isDashMPD]

ParseNone == [kind |-> "None"]
\* Some(well_formated_formats); objects are the JSON objects they were
\* converted from.
ParseSome(formats, objects, log) ==
    [kind |-> "Some", formats |-> formats, objects |-> objects, log |-> log]
ParsePanic(log) == [kind |-> "panic", log |-> log]

\* for format in &mut formats { format.as_object_mut().map(|x| { .. }) }
\* followed by the conversion loop.  log holds, per record, the transformer
\* calls made for it.
RECURSIVE ResolveLoop(_, _, _, _, _, _, _)
ResolveLoop(formats, format_functions, i, n_transform_cache_, cipher_cache_, done, log) ==
    IF i > Len(formats)
    THEN ParseSome([k \in 1..Len(SelectSeq(done, IsWellFormated)) |->
                       VideoFormatOf(SelectSeq(done, IsWellFormated)[k])],
                   SelectSeq(done, IsWellFormated), log)
    ELSE
    LET x == formats[i] IN
    IF x.kind # "object"
    THEN ResolveLoop(formats, format_functions, i + 1, n_transform_cache_,
                     cipher_cache_, Append(done, x), Append(log, <<>>))
    ELSE
    LET r == set_download_url(x, format_functions, n_transform_cache_, cipher_cache_) IN
    IF r.ret = Panicked THEN ParsePanic(Append(log, r.log))
    ELSE ResolveLoop(formats, format_functions, i + 1, r.n_cache, r.slot,
                     Append(done, add_format_meta(x, r.ret)), Append(log, r.log))

\* .get("streamingData").and_then(|x| x.get("formats"))?.as_array()? and the
\* same for adaptiveFormats, then [&formats[..], &adaptive_formats[..]].concat()
StreamingLists(streamingData) ==
    IF streamingData.formats = Absent \/ streamingData.adaptiveFormats = Absent
    THEN [ok |-> FALSE, all |-> <<>>]
    ELSE [ok |-> TRUE,
          all |-> streamingData.formats.items \o streamingData.adaptiveFormats.items]

parse_video_formats(info, format_functions) ==
    IF info.streamingData = Absent THEN ParseNone
    ELSE LET lists == StreamingLists(info.streamingData) IN
         IF ~lists.ok THEN ParseNone
         ELSE ResolveLoop(lists.all, format_functions, 1, {}, NoContext, <<>>, <<>>)

(***************************************************************************)
(* Calls of parse_video_formats.                                           *)
(***************************************************************************)
\* The vector extract_functions builds from the roles it found: the decipher
\* pair is pushed first, the n-transform pair second, each only when found.
Found(pair) == [kind |-> "found", pair |-> pair]

FunctionsOf(roles) ==
    (IF roles.decipher = Absent THEN <<>> ELSE <<roles.decipher.pair>>)
        \o (IF roles.ncode = Absent THEN <<>> ELSE <<roles.ncode.pair>>)

\* The decipher function of the player script, and its n-transform function
\* (one that works and one whose source does not compile).
DecipherPairs == {Found(<<"f", "srcA">>)}
NcodePairs == {Found(<<"f", "srcB">>), Found(<<"f", FailingSource>>)}

ExtractedRoles ==
    [decipher : DecipherPairs \cup {Absent}, ncode : NcodePairs \cup {Absent}]

PlainUrl == Url("https://x/v", <<Pair("a", <<"1">>), Pair("n", <<"abc">>)>>, TRUE)
CipherQs ==
    Qs(FieldComponents(Url("https://x/v", <<Pair("foo", <<"1">>), Pair("n", <<"abc">>)>>, TRUE),
                       Text(<<"abc">>), Text(<<"sig">>)))

LiveCipherQs ==
    Qs(FieldComponents(Url("https://x/source/yt_live_broadcast/v", <<Pair("a", <<"1">>)>>, TRUE),
                       Text(<<"abc">>), Text(<<"sig">>)))

\* Format records: a direct url with n; a direct url that is not in
\* serialised form; a signatureCipher; a cipher; url and signatureCipher
\* together; none of the three fields; a JSON number; a direct url in a record
\* that does not fit the schema; a signatureCipher that does not decode; an
\* HLS manifest url; a signatureCipher whose url is a live stream.  They
\* differ in which of qualityLabel, audioBitrate and audioQuality they hold.
Records ==
    {Record("direct", PlainUrl, Absent, Absent, TRUE, FALSE, TRUE, TRUE),
     Record("bare", Url("https://x/v", <<>>, FALSE), Absent, Absent, TRUE, TRUE, FALSE, TRUE),
     Record("sig", Absent, CipherQs, Absent, TRUE, FALSE, FALSE, TRUE),
     Record("cipher", Absent, Absent, CipherQs, FALSE, TRUE, TRUE, TRUE),
     Record("both", PlainUrl, CipherQs, Absent, TRUE, TRUE, TRUE, TRUE),
     Record("none", Absent, Absent, Absent, TRUE, TRUE, TRUE, TRUE),
     JsonNumber,
     Record("badschema", PlainUrl, Absent, Absent, TRUE, TRUE, TRUE, FALSE),
     Record("siglive", Absent, LiveCipherQs, Absent, FALSE, FALSE, TRUE, TRUE),
     Record("dup", Absent,
            Qs(FieldComponents(Absent, Text(<<"abc">>), Absent)
                   \o <<[k |-> K_s, v |-> Text(<<"dup">>)]>>),
            Absent, TRUE, TRUE, TRUE, TRUE),
     Record("hls", Url("https://x/manifest/hls_variant/v", <<>>, TRUE),
            Absent, Absent, TRUE, FALSE, FALSE, TRUE)}

JsonArray(items) == [kind |-> "array", items |-> items]

RecordLists == {JsonArray(l) : l \in SeqUpTo(Records, MaxListLen)} \cup {Absent}

ParseInputs ==
    {[streamingData |-> Absent]}
        \cup {[streamingData |-> [formats |-> f, adaptiveFormats |-> a]] :
                 f \in RecordLists, a \in RecordLists}

IdleParse ==
    /\ extracted_roles = [decipher |-> Absent, ncode |-> Absent]
    /\ parse_info = [streamingData |-> Absent]
    /\ parse_result = NotCalled

StartParse ==
    /\ extracted_roles \in ExtractedRoles
    /\ parse_info \in ParseInputs
    /\ parse_result = NotCalled

ParseVideoFormatsCall ==
    /\ parse_result = NotCalled
    /\ parse_result' = parse_video_formats(parse_info, FunctionsOf(extracted_roles))
    /\ UNCHANGED <<extracted_roles, parse_info>>

(***************************************************************************)
(* filter_formats, the rankings and choose_format (utils.rs).  A           *)
(* VideoFormat carries its flags, content_length (a decimal text or        *)
(* absent), quality_label (a text or absent), bitrate and audio_bitrate    *)
(* (unsigned 64-bit) and the codecs of its mime type.                      *)
(***************************************************************************)
\* An unsigned 64-bit value hi * 2^31 + lo, with lo below 2^31.
U64(hi, lo) == [hi |-> hi, lo |-> lo]

\* value as i32: the low 32 bits, read as a signed integer.
AsI32(value) ==
    IF value.hi % 2 = 1 THEN (value.lo - 2147483647) - 1 ELSE value.lo

BoolAsI32(b) == IF b THEN 1 ELSE 0

\* The decimal texts the model uses, and the numbers they denote.
DecimalTokens == {"0", "480", "720", "1000", "1080"}
DecimalValue(token) ==
    CASE token = "0" -> 0
      [] token = "480" -> 480
      [] token = "720" -> 720
      [] token = "1000" -> 1000
      [] token = "1080" -> 1080

\* content_length.unwrap_or("0").parse::<u64>().unwrap_or(0) > 0
ContentLengthPositive(content_length) ==
    /\ content_length # Absent
    /\ Len(content_length.txt) = 1
    /\ content_length.txt[1] \in DecimalTokens
    /\ DecimalValue(content_length.txt[1]) > 0

\* PARSE_INT_REGEX.captures(quality_label) .. parse::<i32>().unwrap_or(0):
\* the leading integer of the label, 0 if there is none.
QualityLabelKey(quality_label) ==
    IF quality_label = Absent \/ quality_label.txt = <<>> THEN 0
    ELSE IF quality_label.txt[1] \in DecimalTokens
         THEN DecimalValue(quality_label.txt[1]) ELSE 0

VIDEO_ENCODING_RANKS ==
    <<"mp4v", "avc1", "Sorenson H.283", "MPEG-4 Visual", "VP8", "VP9", "H.264">>
AUDIO_ENCODING_RANKS == <<"mp4a", "mp3", "vorbis", "aac", "opus", "flac">>

\* RANKS.iter().position(|enc| codecs.join(", ").contains(enc))
\*      .map(|x| x as i32).unwrap_or(-1)
EncodingRank(ranks, codecs) ==
    LET hits == {i \in 1..Len(ranks) :
                    \E j \in 1..Len(codecs) : codecs[j] = ranks[i]}
    IN IF hits = {} THEN -1
       ELSE (CHOOSE i \in hits : \A k \in hits : i <= k) - 1

\* The key lists of sort_formats, sort_formats_by_video, sort_formats_by_audio.
SortFormatsKeys(form) ==
    <<BoolAsI32(form.is_hls),
      BoolAsI32(form.is_dash_mpd),
      BoolAsI32(form.has_video /\ form.has_audio),
      BoolAsI32(form.has_video),
      BoolAsI32(ContentLengthPositive(form.content_length)),
      QualityLabelKey(form.quality_label),
      AsI32(form.bitrate),
      AsI32(IF form.audio_bitrate = Absent THEN U64(0, 0) ELSE form.audio_bitrate),
      EncodingRank(VIDEO_ENCODING_RANKS, form.codecs),
      EncodingRank(AUDIO_ENCODING_RANKS, form.codecs)>>

SortByVideoKeys(form) ==
    <<QualityLabelKey(form.quality_label),
      AsI32(form.bitrate),
      EncodingRank(VIDEO_ENCODING_RANKS, form.codecs)>>

SortByAudioKeys(form) ==
    <<AsI32(IF form.audio_bitrate = Absent THEN U64(0, 0) ELSE form.audio_bitrate),
      EncodingRank(AUDIO_ENCODING_RANKS, form.codecs)>>

\* sort_formats_by on the key lists of a and b: the first key on which they
\* differ decides, func(b).cmp(&func(a)).
RECURSIVE sort_formats_by(_, _, _)
sort_formats_by(a_keys, b_keys, i) ==
    IF i > Len(a_keys) THEN "Equal"
    ELSE IF b_keys[i] < a_keys[i] THEN "Less"
    ELSE IF b_keys[i] > a_keys[i] THEN "Greater"
    ELSE sort_formats_by(a_keys, b_keys, i + 1)

sort_formats(a, b) == sort_formats_by(SortFormatsKeys(a), SortFormatsKeys(b), 1)
sort_formats_by_video(a, b) == sort_formats_by(SortByVideoKeys(a), SortByVideoKeys(b), 1)
sort_formats_by_audio(a, b) == sort_formats_by(SortByAudioKeys(a), SortByAudioKeys(b), 1)

\* VideoSearchOptions and VideoQuality.  The caller's closures of the Custom
\* variants are named: the predicate "AtLeast720" and the comparators
\* "BitrateAscending" and "AllEqual".
SearchOption(kind) == [kind |-> kind]
CustomSearch(func) == [kind |-> "Custom", func |-> func]
Quality(kind) == [kind |-> kind]
CustomQuality(filter, func) == [kind |-> "Custom", filter |-> filter, func |-> func]

CallerPredicate(func, x) ==
    func = "AtLeast720" /\ QualityLabelKey(x.quality_label) >= 720

CallerComparator(func, x, y) ==
    IF func = "BitrateAscending"
    THEN IF x.bitrate.lo < y.bitrate.lo THEN "Less"
         ELSE IF x.bitrate.lo > y.bitrate.lo THEN "Greater" ELSE "Equal"
    ELSE "Equal"

\* The closure handed to retain, without "|| x.is_live".
Retained_IgnoringLive(options, x) ==
    CASE options.kind = "Audio" -> ~x.has_video /\ x.has_audio
      [] options.kind = "Video" -> x.has_video /\ ~x.has_audio
      [] options.kind = "Custom" -> CallerPredicate(options.func, x)
      [] OTHER -> x.has_video /\ x.has_audio

\* The closure filter_formats hands to retain, per variant of options.
Retained(options, x) ==
    CASE options.kind = "Audio" -> (~x.has_video /\ x.has_audio) \/ x.is_live
      [] options.kind = "Video" -> (x.has_video /\ ~x.has_audio) \/ x.is_live
      [] options.kind = "Custom" -> CallerPredicate(options.func, x) \/ x.is_live
      [] OTHER -> (x.has_video /\ x.has_audio) \/ x.is_live

\* A filter stage that retains every record.
filter_formats_KeepsAll(formats, options) == formats

filter_formats(formats, options) ==
    SelectSeq(formats, LAMBDA x : Retained(options, x))

\* The closure that keeps the records that are HLS or live.
HlsRetained_HlsOrLive(fmt) == fmt.is_hls \/ fmt.is_live

\* formats.retain(|fmt| (fmt.is_hls) || !(fmt.is_live))
HlsRetained(fmt) == fmt.is_hls \/ ~fmt.is_live

\* The comparator a sort_by call is given.
Compare(by, a, b) ==
    CASE by = "sort_formats" -> sort_formats(a, b)
      [] by = "sort_formats_by_audio" -> sort_formats_by_audio(a, b)
      [] by = "sort_formats_by_video" -> sort_formats_by_video(a, b)
      [] OTHER -> CallerComparator(by, a, b)

\* x put into the sorted sequence before the first element that compares
\* Greater than it, after every element that compares Less or Equal.
InsertSorted(sorted, x, by) ==
    LET after == {k \in 1..Len(sorted) : Compare(by, sorted[k], x) = "Greater"}
        at == IF after = {} THEN Len(sorted) + 1
              ELSE CHOOSE k \in after : \A j \in after : k <= j
    IN SubSeq(sorted, 1, at - 1) \o <<x>> \o SubSeq(sorted, at, Len(sorted))

\* formats.sort_by(cmp): a stable sort.
RECURSIVE SortFrom(_, _, _, _)
SortFrom(formats, i, sorted, by) ==
    IF i > Len(formats) THEN sorted
    ELSE SortFrom(formats, i + 1, InsertSorted(sorted, formats[i], by), by)

sort_by(formats, by) == SortFrom(formats, 1, <<>>, by)

FormatNotFound == [kind |-> "Err", error |-> "FormatNotFound"]

\* A returned record built anew, with its flags cleared.
Ok_Synthesized(format) ==
    [kind |-> "Ok",
     format |-> [format EXCEPT !.is_live = FALSE, !.is_hls = FALSE, !.is_dash_mpd = FALSE]]

\* Ok(return_format.clone())
Ok(format) == [kind |-> "Ok", format |-> format]

\* What a call leaves: the working list after lines 182, 184-186 and 188,
\* and the returned value.
ChooseOut(filtered, pruned, sorted, ranked, ret) ==
    [kind |-> "Called", filtered |-> filtered, pruned |-> pruned,
     sorted |-> sorted, ranked |-> ranked, ret |-> ret]

\* LastOf, taking the first record instead.
LastOf_TakesFirst(formats) == IF formats = <<>> THEN FormatNotFound ELSE Ok(formats[1])

\* formats.first().ok_or(..) and formats.last().ok_or(..)
FirstOf(formats) == IF formats = <<>> THEN FormatNotFound ELSE Ok(formats[1])
LastOf(formats) == IF formats = <<>> THEN FormatNotFound ELSE Ok(formats[Len(formats)])

choose_format(formats, options) ==
    LET filter == options.filter
        filtered == filter_formats(formats, filter)
        pruned == IF \E k \in 1..Len(filtered) : filtered[k].is_hls
                  THEN SelectSeq(filtered, HlsRetained) ELSE filtered
        sorted == sort_by(pruned, "sort_formats")
        quality == options.quality
        \* the working list of the match arm, when first() or last() is taken
        ranked ==
            CASE quality.kind \in {"Highest", "Lowest"} ->
                    filter_formats(sorted, filter)
              [] quality.kind \in {"HighestAudio", "LowestAudio"} ->
                    sort_by(filter_formats(sorted, SearchOption("Audio")),
                            "sort_formats_by_audio")
              [] quality.kind \in {"HighestVideo", "LowestVideo"} ->
                    sort_by(filter_formats(sorted, SearchOption("Video")),
                            "sort_formats_by_video")
              [] quality.kind = "Custom" ->
                    sort_by(filter_formats(sorted, quality.filter), quality.func)
        ret ==
            CASE quality.kind = "Highest" -> FirstOf(ranked)
              [] quality.kind = "Lowest" -> LastOf(ranked)
              [] quality.kind = "HighestAudio" -> FirstOf(ranked)
              [] quality.kind = "LowestAudio" -> LastOf(ranked)
              [] quality.kind = "HighestVideo" -> FirstOf(ranked)
              [] quality.kind = "LowestVideo" -> LastOf(ranked)
              [] quality.kind = "Custom" -> FirstOf(ranked)
    IN ChooseOut(filtered, pruned, sorted, ranked, ret)

(***************************************************************************)
(* Calls of choose_format.                                                 *)
(***************************************************************************)
Fmt(id, hasV, hasA, live, hls, dash, clen, qlabel, rate, arate, codecs) ==
    [id |-> id, has_video |-> hasV, has_audio |-> hasA,
     is_live |-> live, is_hls |-> hls, is_dash_mpd |-> dash,
     content_length |-> clen, quality_label |-> qlabel,
     bitrate |-> rate, audio_bitrate |-> arate, codecs |-> codecs]

\* Formats: video+audio 720p; video-only 1080p; audio-only; an HLS 480p
\* stream; a live stream that is not HLS; a live HLS stream; a live
\* audio-only stream; a video-only format with bitrate 2^31.
VideoFormats ==
    {Fmt("va720", TRUE, TRUE, FALSE, FALSE, FALSE, Text(<<"1000">>),
         Text(<<"720", "p">>), U64(0, 500), U64(0, 128), <<"avc1", "mp4a">>),
     Fmt("v1080", TRUE, FALSE, FALSE, FALSE, FALSE, Text(<<"1000">>),
         Text(<<"1080", "p">>), U64(0, 800), Absent, <<"VP9">>),
     Fmt("a128", FALSE, TRUE, FALSE, FALSE, FALSE, Text(<<"1000">>),
         Absent, U64(0, 128), U64(0, 128), <<"opus">>),
     Fmt("hls480", TRUE, TRUE, FALSE, TRUE, FALSE, Absent,
         Text(<<"480", "p">>), U64(0, 300), Absent, <<"avc1", "mp4a">>),
     Fmt("live720", TRUE, TRUE, TRUE, FALSE, FALSE, Absent,
         Text(<<"720", "p">>), U64(0, 500), U64(0, 128), <<"avc1", "mp4a">>),
     Fmt("livehls", TRUE, TRUE, TRUE, TRUE, FALSE, Absent,
         Text(<<"720", "p">>), U64(0, 500), Absent, <<"avc1", "mp4a">>),
     Fmt("livea", FALSE, TRUE, TRUE, FALSE, FALSE, Absent,
         Absent, U64(0, 128), U64(0, 128), <<"mp4a">>),
     Fmt("big", TRUE, FALSE, FALSE, FALSE, FALSE, Text(<<"1000">>),
         Text(<<"1080", "p">>), U64(1, 0), Absent, <<"avc1">>)}

SearchOptions ==
    {SearchOption("VideoAudio"), SearchOption("Video"), SearchOption("Audio"),
     CustomSearch("AtLeast720")}

Qualities ==
    {Quality(k) : k \in {"Highest", "Lowest", "HighestAudio", "LowestAudio",
                         "HighestVideo", "LowestVideo"}}
        \cup {CustomQuality(CustomSearch("AtLeast720"), "BitrateAscending"),
              CustomQuality(SearchOption("Audio"), "AllEqual")}

VideoOptionsSet == [filter : SearchOptions, quality : Qualities]

IdleChoose ==
    /\ choose_formats = <<>>
    /\ choose_options = [filter |-> SearchOption("VideoAudio"),
                         quality |-> Quality("Highest")]
    /\ choose_result = NotCalled

StartChoose ==
    /\ choose_formats \in SeqUpTo(VideoFormats, MaxFormats)
    /\ choose_options \in VideoOptionsSet
    /\ choose_result = NotCalled

\* let mut formats = formats.to_owned(): the caller's list is not touched.
ChooseFormatCall ==
    /\ choose_result = NotCalled
    /\ choose_result' = choose_format(choose_formats, choose_options)
    /\ UNCHANGED <<choose_formats, choose_options>>

(***************************************************************************)
(* get_functions and the shared slot FUNCTIONS (utils.rs:829-863).  Each   *)
(* caller is a task; a step is what a task does between two awaits.  The   *)
(* read guard lives for the comparison and the clone, the write guard for  *)
(* the assignment, and no await lies inside either, so each is one step.   *)
(* guards[p] is what caller p still holds when a step ends.                *)
(***************************************************************************)
Callers == {1, 2}

\* The html5player references callers pass, and url.set_path(reference) on
\* BASE_URL: a path always starts with a slash.
References == {"/s/a.js", "s/a.js", "/s/b.js", "/s/c.js"}
ResolveUrl(html5player) ==
    IF html5player = "s/a.js" THEN <<"BASE_URL", "/s/a.js">>
    ELSE <<"BASE_URL", html5player>>

\* The player scripts the server holds: one with both functions, one with
\* the n-transform function only, one whose definition is cut short.
PlayerScript(url) ==
    CASE url[2] = "/s/a.js" ->
            DecipherLeft \o <<"da">> \o DecipherRight
                \o <<"omponent", "(", "c", ")", ")", ";">>
                \o NcodeLeft \o <<"nf">> \o NcodeRight \o <<";">>
                \o <<"nf">> \o FunctionA \o <<"{", "return", " ", "a", "}", ";">>
                \o <<"da">> \o FunctionA \o <<"{", "a", ";", "}", ";">>
      [] url[2] = "/s/b.js" ->
            NcodeLeft \o <<"nf">> \o NcodeRight \o <<";">>
                \o <<"nf">> \o FunctionA \o <<"{", "return", " ", "a", "}", ";">>
      [] OTHER ->
            NcodeLeft \o <<"nf">> \o NcodeRight \o <<";">>
                \o <<"nf">> \o FunctionA \o <<"{", "a", "=", "/">>

\* What get_html returns: the body, or one of its two errors.
HtmlOk(body) == [kind |-> "Ok", body |-> body]
HtmlErr(error) == [kind |-> "Err", error |-> error]
get_html(url) ==
    {HtmlOk(PlayerScript(url)), HtmlErr("ReqwestMiddleware"), HtmlErr("BodyCannotParsed")}

NoFunctions == [kind |-> "None"]

\* The slot value with the URL of the call and no functions.
SomeFunctions_UrlOnly(url, functions) == [kind |-> "Some", url |-> url, functions |-> <<>>]

\* Some((url.to_string(), functions.clone()))
SomeFunctions(url, functions) == [kind |-> "Some", url |-> url, functions |-> functions]

OkFunctions(functions) == [kind |-> "Ok", functions |-> functions]

\* A caller: where it is in get_functions, its argument and locals, the
\* number of get_html calls of the current call, and what the call returned.
Caller(pc, html5player, url, functions, fetches, ret) ==
    [pc |-> pc, html5player |-> html5player, url |-> url,
     functions |-> functions, fetches |-> fetches, ret |-> ret]
IdleCaller == Caller("idle", "", <<>>, <<>>, 0, NotCalled)

\* The slot taken as a hit whenever it is Some.
SlotHits_AnyUrl(slot, url) == slot.kind = "Some"

\* The slot hits for url: it is Some and cached_url == url.
SlotHits(slot, url) == slot.kind = "Some" /\ slot.url = url

\* The read guard kept after the block of the cache check.
GuardsAfterCheck_ReadKept(held) == held

\* The block at lines 843-851 ends: the read guard, a temporary of the
\* if-let, is dropped.
GuardsAfterCheck(held) == held \ {"read"}

\* FUNCTIONS.read().await returns: no caller holds the write guard.
CanRead(p) == \A q \in Callers \ {p} : "write" \notin guards[q]
\* FUNCTIONS.write().await returns: no guard is held by anyone.
CanWrite(p) == \A q \in Callers : guards[q] = {}

\* A fetch is in flight for another caller.
FetchInFlight(p) == \E q \in Callers \ {p} : callers[q].pc = "fetch"

\* A failed fetch followed by a second attempt.
FetchFailed_Retried(caller, response) ==
    [caller EXCEPT !.pc = "returned", !.fetches = @ + 2, !.ret = response]

\* get_html(..).await? on Err: the error is returned at once.
FetchFailed(caller, response) ==
    [caller EXCEPT !.pc = "returned", !.fetches = @ + 1, !.ret = response]

\* lines 837-841: the call starts and resolves its URL.
GetFunctionsEnter(p, html5player) ==
    /\ callers[p].pc = "idle"
    /\ get_functions_calls < MaxGetFunctionsCalls
    /\ get_functions_calls' = get_functions_calls + 1
    /\ callers' = [callers EXCEPT ![p] =
            Caller("check", html5player, ResolveUrl(html5player), <<>>, 0, NotCalled)]
    /\ UNCHANGED <<FUNCTIONS, guards, served_during_fetch>>

\* lines 843-851: under the read lock, return the cached functions on a hit.
CheckCache(p) ==
    /\ callers[p].pc = "check"
    /\ CanRead(p)
    /\ guards' = [guards EXCEPT ![p] = GuardsAfterCheck(@ \cup {"read"})]
    /\ served_during_fetch' =
          (served_during_fetch
              \/ (SlotHits(FUNCTIONS, callers[p].url) /\ FetchInFlight(p)))
    /\ callers' = [callers EXCEPT ![p] =
            IF SlotHits(FUNCTIONS, callers[p].url)
            THEN [@ EXCEPT !.pc = "returned", !.ret = OkFunctions(FUNCTIONS.functions)]
            ELSE [@ EXCEPT !.pc = "fetch"]]
    /\ UNCHANGED <<FUNCTIONS, get_functions_calls>>

\* lines 853-855: get_html(..).await? and extract_functions(response).
FetchAndExtract(p) ==
    /\ callers[p].pc = "fetch"
    /\ \E response \in get_html(callers[p].url) :
          callers' = [callers EXCEPT ![p] =
            IF response.kind = "Err"
            THEN FetchFailed(@, response)
            ELSE LET functions == extract_functions(response.body) IN
                 IF functions = Panicked
                 THEN [@ EXCEPT !.pc = "returned", !.fetches = @ + 1, !.ret = Panicked]
                 ELSE [@ EXCEPT !.pc = "update", !.fetches = @ + 1,
                                !.functions = functions.v]]
    /\ UNCHANGED <<FUNCTIONS, get_functions_calls, guards, served_during_fetch>>

\* lines 858-862: under the write lock, replace the slot; return.
UpdateCache(p) ==
    /\ callers[p].pc = "update"
    /\ CanWrite(p)
    /\ FUNCTIONS' = SomeFunctions(callers[p].url, callers[p].functions)
    /\ callers' = [callers EXCEPT ![p] =
            [@ EXCEPT !.pc = "returned", !.ret = OkFunctions(callers[p].functions)]]
    /\ UNCHANGED <<get_functions_calls, guards, served_during_fetch>>

\* The caller has its result and may call again.
GetFunctionsLeave(p) ==
    /\ callers[p].pc = "returned"
    /\ callers' = [callers EXCEPT ![p] = IdleCaller]
    /\ guards' = [guards EXCEPT ![p] = {}]
    /\ UNCHANGED <<FUNCTIONS, get_functions_calls, served_during_fetch>>

\* A call is under way for no other caller.
OthersIdle(p) == \A q \in Callers \ {p} : callers[q].pc = "idle"

IdleFunctions ==
    /\ FUNCTIONS = NoFunctions
    /\ callers = [p \in Callers |-> IdleCaller]
    /\ get_functions_calls = MaxGetFunctionsCalls
    /\ guards = [p \in Callers |-> {}]
    /\ served_during_fetch = FALSE

StartFunctions ==
    /\ FUNCTIONS = NoFunctions
    /\ callers = [p \in Callers |-> IdleCaller]
    /\ get_functions_calls = 0
    /\ guards = [p \in Callers |-> {}]
    /\ served_during_fetch = FALSE

(***************************************************************************)
(* Concurrent calls of parse_video_formats (parser/mod.rs:29-54).  The     *)
(* function is synchronous; calls on different threads are interleaved     *)
(* record by record.  n_transform_cache and cipher_cache are locals of a   *)
(* call, created at lines 31 and 33 and dropped when the call returns or   *)
(* unwinds.                                                                *)
(***************************************************************************)
Batches == {1, 2}

Caches(n_transform_cache_, cipher_cache_) ==
    [n_transform_cache |-> n_transform_cache_, cipher_cache |-> cipher_cache_]

\* A call that starts with the caches another call holds.
NewCaches_Shared(others) == others

\* HashMap::new() and None, whatever caches other calls hold.
NewCaches(others) == Caches({}, NoContext)

\* The player functions of the two videos: the scripts differ.
BatchFunctions(b) ==
    IF b = 1 THEN <<<<"f", "srcA">>, <<"f", "srcB">>>>
    ELSE <<<<"f", "srcB">>, <<"f", "srcA">>>>

BatchRecords ==
    {Record("direct", PlainUrl, Absent, Absent, TRUE, FALSE, TRUE, TRUE),
     Record("sig", Absent, CipherQs, Absent, TRUE, FALSE, FALSE, TRUE)}
BatchLists == SeqUpTo(BatchRecords, MaxBatchLen)

Batch(pc, formats, i, caches, done, log, ret) ==
    [pc |-> pc, formats |-> formats, i |-> i, caches |-> caches,
     done |-> done, log |-> log, ret |-> ret]
IdleBatch == Batch("idle", <<>>, 1, Caches({}, NoContext), <<>>, <<>>, NotCalled)

\* lines 29-33: the lists are concatenated and the caches created.
BatchEnter(b) ==
    /\ batches[b].pc = "idle"
    /\ \E formats \in BatchLists, o \in Batches \ {b} :
          batches' = [batches EXCEPT ![b] =
              Batch("running", formats, 1, NewCaches(batches[o].caches),
                    <<>>, <<>>, NotCalled)]

\* lines 34-54: one pass of the loop body.
ResolveRecord(b) ==
    /\ batches[b].pc = "running"
    /\ batches[b].i <= Len(batches[b].formats)
    /\ LET t == batches[b]
           x == t.formats[t.i]
           r == set_download_url(x, BatchFunctions(b),
                                 t.caches.n_transform_cache, t.caches.cipher_cache)
       IN batches' = [batches EXCEPT ![b] =
              IF r.ret = Panicked
              THEN Batch("returned", t.formats, t.i, Caches({}, NoContext),
                         t.done, Append(t.log, r.log), ParsePanic(Append(t.log, r.log)))
              ELSE Batch("running", t.formats, t.i + 1, Caches(r.n_cache, r.slot),
                         Append(t.done, add_format_meta(x, r.ret)),
                         Append(t.log, r.log), NotCalled)]

\* lines 56-71: the conversion loop and the return; the locals are dropped.
BatchReturn(b) ==
    /\ batches[b].pc = "running"
    /\ batches[b].i > Len(batches[b].formats)
    /\ LET t == batches[b] IN
       batches' = [batches EXCEPT ![b] =
           Batch("returned", t.formats, t.i, Caches({}, NoContext), t.done, t.log,
                 ResolveLoop(t.formats, BatchFunctions(b), t.i,
                             t.caches.n_transform_cache, t.caches.cipher_cache,
                             t.done, t.log))]

IdleBatches == batches = [b \in Batches |-> IdleBatch]
StartBatches == batches = [b \in Batches |-> IdleBatch]

(***************************************************************************)
(* Specifications: one per function under study.                          *)
(***************************************************************************)
InitCut == StartCut /\ IdleBetween /\ IdleDecipher /\ IdleNcode /\ IdleExtract
    /\ IdleParse /\ IdleChoose /\ IdleFunctions /\ IdleBatches
NextCut ==
    CutAfterJsCall /\ UNCHANGED <<betweenVars, decipherVars, ncodeVars, extractVars, parseVars, chooseVars, functionsVars, batchVars>>
SpecCut == InitCut /\ [][NextCut]_vars

InitBetween == StartBetween /\ IdleCut /\ IdleDecipher /\ IdleNcode /\ IdleExtract
    /\ IdleParse /\ IdleChoose /\ IdleFunctions /\ IdleBatches
NextBetween ==
    BetweenCall /\ UNCHANGED <<cutVars, decipherVars, ncodeVars, extractVars, parseVars, chooseVars, functionsVars, batchVars>>
SpecBetween == InitBetween /\ [][NextBetween]_vars

InitDecipher == StartDecipher /\ IdleCut /\ IdleBetween /\ IdleNcode /\ IdleExtract
    /\ IdleParse /\ IdleChoose /\ IdleFunctions /\ IdleBatches
NextDecipher ==
    DecipherCall /\ UNCHANGED <<cutVars, betweenVars, ncodeVars, extractVars, parseVars, chooseVars, functionsVars, batchVars>>
SpecDecipher == InitDecipher /\ [][NextDecipher]_vars

InitNcode == StartNcode /\ IdleCut /\ IdleBetween /\ IdleDecipher /\ IdleExtract
    /\ IdleParse /\ IdleChoose /\ IdleFunctions /\ IdleBatches
NextNcode ==
    NcodeCall /\ UNCHANGED <<cutVars, betweenVars, decipherVars, extractVars, parseVars, chooseVars, functionsVars, batchVars>>
SpecNcode == InitNcode /\ [][NextNcode]_vars

InitExtract == StartExtract /\ IdleCut /\ IdleBetween /\ IdleDecipher /\ IdleNcode
    /\ IdleParse /\ IdleChoose /\ IdleFunctions /\ IdleBatches
NextExtract ==
    ExtractFunctionsCall
        /\ UNCHANGED <<cutVars, betweenVars, decipherVars, ncodeVars, parseVars, chooseVars, functionsVars, batchVars>>
SpecExtract == InitExtract /\ [][NextExtract]_vars

InitParse ==
    StartParse /\ IdleCut /\ IdleBetween /\ IdleDecipher /\ IdleNcode /\ IdleExtract
        /\ IdleChoose /\ IdleFunctions /\ IdleBatches
NextParse ==
    ParseVideoFormatsCall
        /\ UNCHANGED <<cutVars, betweenVars, decipherVars, ncodeVars, extractVars,
                       chooseVars, functionsVars, batchVars>>
SpecParse == InitParse /\ [][NextParse]_vars

InitChoose ==
    StartChoose /\ IdleCut /\ IdleBetween /\ IdleDecipher /\ IdleNcode /\ IdleExtract
        /\ IdleParse /\ IdleFunctions /\ IdleBatches
NextChoose ==
    ChooseFormatCall
        /\ UNCHANGED <<cutVars, betweenVars, decipherVars, ncodeVars, extractVars,
                       parseVars, functionsVars, batchVars>>
SpecChoose == InitChoose /\ [][NextChoose]_vars

InitFunctions ==
    StartFunctions /\ IdleCut /\ IdleBetween /\ IdleDecipher /\ IdleNcode
    /\ IdleExtract /\ IdleParse /\ IdleChoose /\ IdleBatches
OtherVarsOfFunctions ==
    <<cutVars, betweenVars, decipherVars, ncodeVars, extractVars, parseVars, chooseVars, batchVars>>

\* Concurrent callers: any interleaving of their steps.
NextFunctions ==
    /\ \E p \in Callers :
          \/ \E html5player \in References : GetFunctionsEnter(p, html5player)
          \/ CheckCache(p)
          \/ FetchAndExtract(p)
          \/ UpdateCache(p)
          \/ GetFunctionsLeave(p)
    /\ UNCHANGED OtherVarsOfFunctions
SpecFunctions == InitFunctions /\ [][NextFunctions]_vars

\* A sequential run: a call starts only when no other call is under way.
NextFunctionsSeq ==
    /\ \E p \in Callers :
          \/ \E html5player \in References :
                OthersIdle(p) /\ GetFunctionsEnter(p, html5player)
          \/ CheckCache(p)
          \/ FetchAndExtract(p)
          \/ UpdateCache(p)
          \/ GetFunctionsLeave(p)
    /\ UNCHANGED OtherVarsOfFunctions
SpecFunctionsSeq == InitFunctions /\ [][NextFunctionsSeq]_vars

InitBatches ==
    StartBatches /\ IdleCut /\ IdleBetween /\ IdleDecipher /\ IdleNcode
    /\ IdleExtract /\ IdleParse /\ IdleChoose /\ IdleFunctions
NextBatches ==
    /\ \E b \in Batches : BatchEnter(b) \/ ResolveRecord(b) \/ BatchReturn(b)
    /\ UNCHANGED <<cutVars, betweenVars, decipherVars, ncodeVars, extractVars,
                   parseVars, chooseVars, functionsVars>>
SpecBatches == InitBatches /\ [][NextBatches]_vars

(***************************************************************************)
(* Claims about cut_after_js, checked under SpecCut.                       *)
(***************************************************************************)
CutCalled == cut_result # NotCalled

\* C1: for every input that begins with an opening bracket and contains a
\* balanced structure followed by arbitrary trailing bytes, cut_after_js
\* returns exactly the minimal balanced prefix, brackets inside strings,
\* block comments and regex literals not counted.
C1_MinimalBalancedPrefix ==
    (CutCalled /\ RefCut(mixed_json).kind = "Some")
        => cut_result = RefCut(mixed_json)

\* C2: cut_after_js returns no match for every input whose first byte is not
\* an opening bracket (the empty input, a closing bracket, a string literal,
\* a block comment).
C2_NoMatchWithoutOpeningBracket ==
    (CutCalled /\ (Len(mixed_json) = 0 \/ ~IsOpenBracket(At(mixed_json, 0))))
        => cut_result = CutNone

\* C3: for every input that is exhausted before the nesting depth returns to
\* zero, cut_after_js terminates and returns no match; it never aborts or
\* reads past the end of the input.
C3_ExhaustedInputIsNoMatch ==
    (/\ CutCalled
     /\ Len(mixed_json) > 0
     /\ IsOpenBracket(At(mixed_json, 0))
     /\ RefCut(mixed_json) = CutNone)
        => cut_result = CutNone

(***************************************************************************)
(* Claims about between, checked under SpecBetween.                        *)
(***************************************************************************)
\* The 0-based positions at or after from where pat occurs in s.
Occurrences(s, pat, from) ==
    {i \in from..(Len(s) - Len(pat)) : Slice(s, i, i + Len(pat)) = pat}

Least(S) == CHOOSE i \in S : \A j \in S : i <= j

\* What between is specified to return.
BetweenExpected(haystack, left, right) ==
    IF Occurrences(haystack, left, 0) = {} THEN <<>>
    ELSE LET p == Least(Occurrences(haystack, left, 0)) + Len(left) IN
         IF Occurrences(haystack, right, p) = {} THEN <<>>
         ELSE Slice(haystack, p, Least(Occurrences(haystack, right, p)))

\* C4: between returns the text strictly between the end of the first
\* occurrence of the left anchor and the start of the first occurrence of
\* the right anchor at or after that point, and the empty string when the
\* left anchor is absent or the right anchor does not occur after it.
C4_BetweenInterior ==
    between_result # NotCalled
        => between_result.s =
               BetweenExpected(between_args[1], between_args[2], between_args[3])

\* C4's case: both anchors are non-empty and found in order, the left one
\* occurs again inside the remaining text, and the interior is not empty.
C4_Witness ==
    /\ between_result # NotCalled
    /\ between_args[2] # <<>>
    /\ between_args[3] # <<>>
    /\ Cardinality(Occurrences(between_args[1], between_args[2], 0)) > 1
    /\ between_result.s # <<>>

(***************************************************************************)
(* Claims about decipher, checked under SpecDecipher.                      *)
(***************************************************************************)
DecipherCalled == decipher_call # NotCalled

\* The last call's input decoded, when it decodes.
CallArgs == QsMap(decipher_call.url)
CallHas(key) == key \in DOMAIN CallArgs
CallSource == decipher_call.script[2]
CallName == decipher_call.script[1]

\* The last call made no use of the engine and left the slot alone.
EngineUntouched ==
    /\ ~decipher_call.compiled
    /\ ~decipher_call.invoked
    /\ cipher_cache = decipher_call.cache_before

\* The last call's input decodes and every field it holds is a flat string.
CallIsFlat ==
    /\ QsDecodes(decipher_call.url)
    /\ \A key \in DOMAIN CallArgs : CallArgs[key].kind # "nested"

\* C5 as stated: for every cipher query string (here: one that decodes to
\* flat url and s fields), decipher called with an empty decipher source returns
\* its input string unchanged, performs no engine invocation and leaves the
\* context slot unchanged.
C5_EmptySourceReturnsInput ==
    (DecipherCalled /\ CallIsFlat /\ CallHas(K_url) /\ CallHas(K_s) /\ CallSource = "")
        => (decipher_call.ret = decipher_call.url /\ EngineUntouched)

\* C5 as amended: for every cipher query string, decipher called with an
\* empty decipher source returns the value of the url field when there is
\* one (the empty string if it is not a flat string) and the input string
\* unchanged when there is none; it performs no engine invocation and leaves
\* the context slot unchanged.
C5_EmptySourceReturnsUrlField ==
    (DecipherCalled /\ QsDecodes(decipher_call.url) /\ CallSource = "")
        => /\ CallHas(K_url) /\ CallArgs[K_url].kind # "nested"
                => decipher_call.ret = CallArgs[K_url]
           /\ CallHas(K_url) /\ CallArgs[K_url].kind = "nested"
                => decipher_call.ret = EmptyString
           /\ ~CallHas(K_url) => decipher_call.ret = decipher_call.url
           /\ EngineUntouched

\* C5's case: a call with an empty source on a slot that holds a context,
\* for an input with url and s fields.
C5_Witness ==
    /\ DecipherCalled
    /\ CallSource = ""
    /\ CallIsFlat
    /\ CallHas(K_url) /\ CallHas(K_s)
    /\ decipher_call.cache_before.kind = "Some"
    /\ decipher_call.ret = CallArgs[K_url]

\* C6: for every input string that is not a decodable query string, decipher
\* returns the original input string unchanged; it never aborts the caller.
C6_UndecodableReturnsInput ==
    (DecipherCalled /\ ~QsDecodes(decipher_call.url))
        => decipher_call.ret = decipher_call.url

\* The url field of the last call is the text of a URL, s is a flat string,
\* the source compiles and its function returns a string for the value of s.
C7_Case ==
    /\ DecipherCalled
    /\ QsDecodes(decipher_call.url)
    /\ CallHas(K_url) /\ CallArgs[K_url].kind = "url"
    /\ CallHas(K_s) /\ CallArgs[K_s].kind = "text"
    /\ CallSource # ""
    /\ ScriptFunction(CallSource, CallName, CallArgs[K_s].txt).kind = "Str"

\* The name of the parameter that receives the signature.
C7_Param ==
    IF CallHas(K_sp) /\ CallArgs[K_sp].kind = "text"
    THEN CallArgs[K_sp].txt ELSE <<"signature">>

\* ret is the URL u with the parameter name set to r: replaced in place if
\* present, appended if absent, every other parameter kept.
IsUrlWithParam(ret, u, name, r) ==
    /\ ret.kind = "url"
    /\ ret.base = u.base
    /\ IF \E i \in 1..Len(u.query) : u.query[i][1] = name
       THEN /\ Len(ret.query) = Len(u.query)
            /\ \A i \in 1..Len(u.query) :
                  /\ ret.query[i][1] = u.query[i][1]
                  /\ ret.query[i][2] =
                        IF u.query[i][1] = name THEN r ELSE u.query[i][2]
       ELSE ret.query = Append(u.query, <<name, r>>)

\* C7: when the input decodes to url, s and optional sp, the source is not
\* empty and the function returns a string r for argument s, decipher
\* returns the URL url in which the parameter named sp (default "signature")
\* has value r, every other parameter unchanged.
C7_SetsSignatureParameter ==
    C7_Case =>
        IsUrlWithParam(decipher_call.ret, CallArgs[K_url], C7_Param,
                       ScriptFunction(CallSource, CallName, CallArgs[K_s].txt).v)

\* A failure of the engine stage or of the URL parse, for an input whose url
\* field is a flat string.
C8_Case ==
    /\ DecipherCalled
    /\ QsDecodes(decipher_call.url)
    /\ CallHas(K_url) /\ CallArgs[K_url].kind # "nested"
    /\ \/ ~UrlParses(CallArgs[K_url])
       \/ /\ CallHas(K_s) /\ CallSource # ""
          /\ \/ ~Compiles(CallSource)
             \/ EvalCall(NewContext(CallSource), CallName,
                         AsStr(CallArgs[K_s]).txt).kind # "Str"

\* C8: for every input with a url field, if compiling the decipher source
\* fails, evaluating the call fails, the result is not a string, or url does
\* not parse as a URL, decipher returns the value of the url field unchanged
\* and does not propagate an error.
C8_FailureReturnsUrlField ==
    C8_Case => decipher_call.ret = CallArgs[K_url]

\* C8's case: a source that does not compile, tried on a slot that holds the
\* context of another source; the call returns the url field.
C8_Witness ==
    /\ C8_Case
    /\ CallHas(K_s)
    /\ ~Compiles(CallSource)
    /\ decipher_call.compiled
    /\ decipher_call.cache_before.kind = "Some"
    /\ decipher_call.ret = CallArgs[K_url]

\* The last call got as far as the context slot: its input decodes and has
\* an s field, and the decipher source is not empty.
C12_UsesSlot ==
    /\ DecipherCalled
    /\ QsDecodes(decipher_call.url)
    /\ CallHas(K_s)
    /\ CallSource # ""

\* C12: after any sequence of decipher calls on one slot, the slot is empty
\* or holds one context, compiled from the source stored as its key; a call
\* whose source equals the key reuses the context without compiling,
\* whatever the function name; a call with another source that compiles
\* replaces key and context together.
C12_SlotHoldsContextOfKey ==
    /\ cipher_cache.kind = "Some" =>
          /\ Compiles(cipher_cache.key)
          /\ cipher_cache.context = NewContext(cipher_cache.key)
    /\ C12_UsesSlot =>
          IF /\ decipher_call.cache_before.kind = "Some"
             /\ decipher_call.cache_before.key = CallSource
          THEN ~decipher_call.compiled /\ cipher_cache = decipher_call.cache_before
          ELSE Compiles(CallSource) =>
                  /\ decipher_call.compiled
                  /\ cipher_cache = SomeContext(CallSource, NewContext(CallSource))

\* C12's case: a call with a compiling source on a slot that holds the
\* context of another source; the slot then holds the new source's context.
C12_Witness ==
    /\ C12_UsesSlot
    /\ decipher_call.cache_before.kind = "Some"
    /\ decipher_call.cache_before.key # CallSource
    /\ cipher_cache.kind = "Some"
    /\ cipher_cache.key = CallSource

(***************************************************************************)
(* Claims about ncode, checked under SpecNcode.                            *)
(***************************************************************************)
NcodeCalled == ncode_call # NotCalled

\* The values of the parameters named n in the text of a URL.
NValues(url) ==
    IF url.kind # "url" THEN {}
    ELSE {url.query[i][2] : i \in {j \in 1..Len(url.query) : url.query[j][1] = K_n}}

\* C9: with one ValueCache and one non-empty n-transform source, every call
\* whose URL carries an n value already in the cache is served from the
\* cache with no engine invocation, and its result URL carries the same
\* transformed value.
C9_CachedValueIsServed ==
    (/\ NcodeCalled
     /\ ncode_script[2] # ""
     /\ NValues(ncode_call.url) # {}
     /\ NValues(ncode_call.url) \subseteq CacheKeys(ncode_call.cache_before))
        => /\ ~ncode_call.compiled
           /\ ~ncode_call.invoked
           /\ ncode_call.ret.kind = "url"
           /\ NValues(ncode_call.ret) =
                  {CacheGet(ncode_call.cache_before, n) : n \in NValues(ncode_call.url)}

\* The last call's URL has an n that is not cached, the source is not empty,
\* and the engine stage fails: the source does not compile, the call throws
\* or the result is not a string.
C10_Case ==
    /\ NcodeCalled
    /\ ncode_call.url.kind = "url"
    /\ QsDecodes(ncode_call.url)
    /\ K_n \in DOMAIN QsMap(ncode_call.url)
    /\ ncode_script[2] # ""
    /\ QsMap(ncode_call.url)[K_n].txt \notin CacheKeys(ncode_call.cache_before)
    /\ \/ ~Compiles(ncode_script[2])
       \/ EvalCall(NewContext(ncode_script[2]), ncode_script[1],
                   QsMap(ncode_call.url)[K_n].txt).kind # "Str"

\* C10: for every URL with an n parameter and every non-empty n-transform
\* source, if compiling the source fails, evaluating the call fails, or the
\* result is not a string, ncode returns the input URL unchanged and does
\* not abort.
C10_EngineFailureReturnsUrl ==
    C10_Case => ncode_call.ret = ncode_call.url

\* The raw n value the last call read from its URL.
CallN == QsMap(ncode_call.url)[K_n].txt

\* C11: within one batch the ValueCache is append-only: every call keeps each
\* entry the cache held before it (no key is removed or given another value,
\* so a key keeps the value it was first given), and the only entry a call
\* adds is the one for the raw n value of its URL, after the engine returned
\* a string for that value.
C11_CacheAppendOnly ==
    NcodeCalled =>
        /\ ncode_call.cache_before \subseteq n_transform_cache
        /\ \A e1, e2 \in n_transform_cache : e1[1] = e2[1] => e1 = e2
        /\ \A e \in n_transform_cache \ ncode_call.cache_before :
              /\ ncode_call.invoked
              /\ e[1] = CallN
              /\ EvalCall(NewContext(ncode_script[2]), ncode_script[1], e[1])
                     = JsStr(e[2])

\* C11's case: a call that adds an entry to a cache that already holds one.
C11_Witness ==
    /\ NcodeCalled
    /\ ncode_call.cache_before # {}
    /\ n_transform_cache \ ncode_call.cache_before # {}

(***************************************************************************)
(* Claims about extract_functions, checked under SpecExtract.              *)
(***************************************************************************)
ExtractCalled == extract_result # NotCalled

\* The pair is the one extract_decipher / extract_ncode cuts out of the body.
IsDecipherPair(p) == extract_decipher(extract_body) = Vec(<<p>>)
IsNcodePair(p) == extract_ncode(extract_body) = Vec(<<p>>)

\* C13: for every player-script body, extract_functions returns a list of at
\* most two pairs in which the pair at index 0, if any, is the decipher
\* function and the pair at index 1, if any, is the n-transform function.
C13_RolesByIndex ==
    ExtractCalled =>
        /\ extract_result.kind = "Vec"
        /\ Len(extract_result.v) <= 2
        /\ Len(extract_result.v) >= 1 => IsDecipherPair(extract_result.v[1])
        /\ Len(extract_result.v) >= 2 => IsNcodePair(extract_result.v[2])

(***************************************************************************)
(* Claims about set_download_url and parse_video_formats, checked under    *)
(* SpecParse.                                                              *)
(***************************************************************************)
ParseCalled == parse_result # NotCalled

\* The batch got as far as resolving records.
ParseRan == ParseCalled /\ parse_result.kind \in {"Some", "panic"}

\* The transformer calls made for the records of the batch.
Invocations ==
    UNION {{parse_result.log[i][j] : j \in 1..Len(parse_result.log[i])} :
              i \in 1..Len(parse_result.log)}

\* The pair a role is resolved with: the extracted one, or the identity.
RoleScript(role) == IF role = Absent THEN <<"", "">> ELSE role.pair

\* C14: a role missing from the extracted function set is the identity
\* transform for the resolver, independently of the other role: every
\* decipher call of the batch is made with the extracted decipher pair, or
\* with the empty pair when none was extracted, and every ncode call with
\* the extracted n-transform pair, or with the empty pair.
C14_MissingRoleIsIdentity ==
    ParseRan =>
        \A inv \in Invocations :
            /\ inv.fn = "decipher" => inv.script = RoleScript(extracted_roles.decipher)
            /\ inv.fn = "ncode" => inv.script = RoleScript(extracted_roles.ncode)

\* The metadata has a streaming section, and it holds both lists.
HasStreaming == parse_info.streamingData # Absent
HasBothLists ==
    /\ HasStreaming
    /\ parse_info.streamingData.formats # Absent
    /\ parse_info.streamingData.adaptiveFormats # Absent

ItemsOf(list) == IF list = Absent THEN <<>> ELSE list.items

\* The standard list followed by the adaptive list.
InputRecords ==
    ItemsOf(parse_info.streamingData.formats)
        \o ItemsOf(parse_info.streamingData.adaptiveFormats)

IdsOf(formats) == [k \in 1..Len(formats) |-> formats[k].id]

\* A record that fits the schema and holds a direct URL, or a cipher field
\* that decodes to a URL and a signature.
WellFormedRecord(x) ==
    /\ x.kind = "object"
    /\ x.schema
    /\ IF x.url # Absent THEN x.url.kind = "url"
       ELSE /\ ChosenSource(x).kind = "qs"
            /\ QsDecodes(ChosenSource(x))
            /\ K_url \in DOMAIN QsMap(ChosenSource(x))
            /\ QsMap(ChosenSource(x))[K_url].kind = "url"

\* C15: for every batch, parse_video_formats runs to completion and returns
\* the resolved form of every well-formed record, whatever the other records
\* contain: no record aborts the batch or removes another record from the
\* result.
C15_BatchRunsToCompletion ==
    (ParseCalled /\ HasBothLists) =>
        /\ parse_result.kind = "Some"
        /\ \A i \in 1..Len(InputRecords) :
              WellFormedRecord(InputRecords[i]) =>
                  \E k \in 1..Len(parse_result.formats) :
                      parse_result.formats[k].id = InputRecords[i].id

\* The record of the batch a resolved format came from.
SourceOf(format) == CHOOSE x \in Records \ {JsonNumber} : x.id = format.id

\* C16: for every record whose url is already direct, resolving it with an
\* empty n-transform yields a resolved record whose url is identical to the
\* input url.
C16_DirectUrlUnchanged ==
    (ParseCalled /\ parse_result.kind = "Some" /\ extracted_roles.ncode = Absent) =>
        \A k \in 1..Len(parse_result.formats) :
            SourceOf(parse_result.formats[k]).url # Absent =>
                parse_result.formats[k].url = SourceOf(parse_result.formats[k]).url

\* The transformer calls the priority url > signatureCipher > cipher asks
\* for: ncode alone on a direct url; decipher on the cipher field, then ncode
\* on what decipher returned.
ExpectedRoute(x, log) ==
    IF x.kind # "object" THEN log = <<>>
    ELSE IF x.url # Absent
    THEN /\ Len(log) = 1
         /\ log[1].fn = "ncode" /\ log[1].arg = JsonAsStr(x.url)
    ELSE /\ Len(log) = 2
         /\ log[1].fn = "decipher"
         /\ log[1].arg = JsonAsStr(IF x.signatureCipher # Absent THEN x.signatureCipher
                                   ELSE IF x.cipher # Absent THEN x.cipher
                                   ELSE EmptyString)
         /\ log[2].fn = "ncode"
         /\ log[2].arg # Panicked

\* C17: for every record the resolver picks its source by the priority
\* url > signatureCipher > cipher: a record with a direct url goes through
\* ncode only, and a record without url goes through decipher first and
\* then always through ncode.
C17_SourcePriority ==
    ParseRan =>
        \A i \in 1..Len(parse_result.log) :
            ExpectedRoute(InputRecords[i], parse_result.log[i])

\* C18: parse_video_formats returns none when the metadata has no streaming
\* section, and otherwise the list of resolved records built from the
\* standard list followed by the adaptive list.
C18_NoneWithoutStreaming ==
    ParseCalled =>
        IF ~HasStreaming THEN parse_result = ParseNone
        ELSE /\ parse_result.kind = "Some"
             /\ IdsOf(parse_result.formats)
                    = IdsOf(SelectSeq(InputRecords, IsWellFormated))

(***************************************************************************)
(* Claims about filter_formats and choose_format, checked under SpecChoose.*)
(***************************************************************************)
ChooseCalled == choose_result # NotCalled

\* The capability predicate of a CapabilityFilter.
Capable(options, x) ==
    CASE options.kind = "Audio" -> x.has_audio /\ ~x.has_video
      [] options.kind = "Video" -> x.has_video /\ ~x.has_audio
      [] options.kind = "VideoAudio" -> x.has_video /\ x.has_audio
      [] options.kind = "Custom" -> CallerPredicate(options.func, x)

InSeq(x, formats) == \E k \in 1..Len(formats) : formats[k] = x

\* C19: for every record list and CapabilityFilter, the filter stage keeps
\* exactly the records that satisfy the capability predicate or are flagged
\* live, in their relative order; a live record is never removed.
C19_FilterKeepsCapableOrLive ==
    ChooseCalled =>
        choose_result.filtered =
            SelectSeq(choose_formats,
                      LAMBDA x : Capable(choose_options.filter, x) \/ x.is_live)

\* C19's case: the filter removes a record and keeps a live record that
\* does not satisfy the capability predicate.
C19_Witness ==
    /\ ChooseCalled
    /\ Len(choose_result.filtered) < Len(choose_formats)
    /\ \E k \in 1..Len(choose_result.filtered) :
          /\ choose_result.filtered[k].is_live
          /\ ~Capable(choose_options.filter, choose_result.filtered[k])

AnyHls(formats) == \E k \in 1..Len(formats) : formats[k].is_hls

\* C20 as stated: if any record surviving the capability filter is HLS,
\* exactly the surviving records that are neither HLS nor live are dropped
\* before ranking; if none is HLS, nothing is dropped.
C20_DropsNeitherHlsNorLive ==
    ChooseCalled =>
        choose_result.pruned =
            IF AnyHls(choose_result.filtered)
            THEN SelectSeq(choose_result.filtered, LAMBDA x : x.is_hls \/ x.is_live)
            ELSE choose_result.filtered

\* C20 as amended: if any record surviving the capability filter is HLS,
\* exactly the surviving records that are live and not HLS are dropped
\* before ranking (every HLS record and every record that is not live is
\* kept); if none is HLS, nothing is dropped.
C20_DropsLiveNotHls ==
    ChooseCalled =>
        choose_result.pruned =
            IF AnyHls(choose_result.filtered)
            THEN SelectSeq(choose_result.filtered, LAMBDA x : ~(x.is_live /\ ~x.is_hls))
            ELSE choose_result.filtered

\* C20's case: an HLS record survives the filter, a live record that is not
\* HLS is dropped and a record that is neither HLS nor live is kept.
C20_Witness ==
    /\ ChooseCalled
    /\ AnyHls(choose_result.filtered)
    /\ \E k \in 1..Len(choose_result.filtered) :
          /\ choose_result.filtered[k].is_live
          /\ ~choose_result.filtered[k].is_hls
          /\ ~InSeq(choose_result.filtered[k], choose_result.pruned)
    /\ \E k \in 1..Len(choose_result.pruned) :
          /\ ~choose_result.pruned[k].is_live
          /\ ~choose_result.pruned[k].is_hls

\* The ranking keys of a record as the values they denote, bitrate and
\* audioBitrate as unsigned 64-bit numbers (high part, then low part).
RankKeys(form) ==
    LET audio == IF form.audio_bitrate = Absent THEN U64(0, 0) ELSE form.audio_bitrate
    IN <<BoolAsI32(form.is_hls),
         BoolAsI32(form.is_dash_mpd),
         BoolAsI32(form.has_video /\ form.has_audio),
         BoolAsI32(form.has_video),
         BoolAsI32(ContentLengthPositive(form.content_length)),
         QualityLabelKey(form.quality_label),
         form.bitrate.hi, form.bitrate.lo,
         audio.hi, audio.lo,
         EncodingRank(VIDEO_ENCODING_RANKS, form.codecs),
         EncodingRank(AUDIO_ENCODING_RANKS, form.codecs)>>

\* a is strictly before b in the descending lexicographic order of keys.
Outranks(keys_a, keys_b) ==
    \E i \in 1..Len(keys_a) :
        /\ keys_a[i] > keys_b[i]
        /\ \A j \in 1..(i - 1) : keys_a[j] = keys_b[j]

\* ranked is list reordered so that no record is outranked by a later one
\* and records with equal keys keep the order they have in list.
StablyRanked(list, ranked, Keys(_)) ==
    /\ Len(ranked) = Len(list)
    /\ \E p \in Permutations(1..Len(list)) :
          /\ \A k \in 1..Len(list) : ranked[k] = list[p[k]]
          /\ \A k, l \in 1..Len(list) :
                k < l =>
                    /\ ~Outranks(Keys(list[p[l]]), Keys(list[p[k]]))
                    /\ Keys(list[p[k]]) = Keys(list[p[l]]) => p[k] < p[l]

\* C21: the general ranking orders the records descending,
\* lexicographically by isHLS, isDashMPD, hasVideo and hasAudio, hasVideo,
\* contentLength > 0, leading integer of the quality label, bitrate,
\* audioBitrate, video-codec rank, audio-codec rank, records equal on all
\* keys staying in input order; so under Highest with the Default
\* capability an HLS record that is a candidate is returned before any
\* record that is not HLS.
C21_GeneralRanking ==
    ChooseCalled =>
        /\ StablyRanked(choose_result.pruned, choose_result.sorted, RankKeys)
        /\ (/\ choose_options.quality.kind = "Highest"
            /\ choose_options.filter.kind = "VideoAudio"
            /\ AnyHls(choose_result.sorted))
                => choose_result.ret.kind = "Ok" /\ choose_result.ret.format.is_hls

\* The capability filter a policy applies in its match arm.
PolicyFilter(options) ==
    CASE options.quality.kind \in {"Highest", "Lowest"} -> options.filter
      [] options.quality.kind \in {"HighestAudio", "LowestAudio"} -> SearchOption("Audio")
      [] options.quality.kind \in {"HighestVideo", "LowestVideo"} -> SearchOption("Video")
      [] options.quality.kind = "Custom" -> options.quality.filter

\* The records of formats that survive every filtering step of a call.
Survivors(formats, options) ==
    LET passed == SelectSeq(formats,
                      LAMBDA x : Capable(options.filter, x) \/ x.is_live)
        kept == IF AnyHls(passed)
                THEN SelectSeq(passed, LAMBDA x : x.is_hls \/ ~x.is_live)
                ELSE passed
    IN SelectSeq(kept, LAMBDA x : Capable(PolicyFilter(options), x) \/ x.is_live)

SameRecords(list, other) ==
    /\ Len(list) = Len(other)
    /\ \E p \in Permutations(1..Len(list)) :
          \A k \in 1..Len(list) : other[k] = list[p[k]]

\* C22: choose_format returns FormatNotFound exactly when no record
\* survives filtering; otherwise a Highest-type policy returns the first
\* record of the ranked sequence of survivors and a Lowest-type policy the
\* last.
C22_NotFoundIffNoSurvivor ==
    ChooseCalled =>
        LET survivors == Survivors(choose_formats, choose_options)
            ranked == choose_result.ranked
            kind == choose_options.quality.kind
        IN /\ SameRecords(survivors, ranked)
           /\ choose_result.ret = FormatNotFound <=> survivors = <<>>
           /\ (survivors # <<>> /\ kind \in {"Highest", "HighestAudio", "HighestVideo"})
                => choose_result.ret = Ok(ranked[1])
           /\ (survivors # <<>> /\ kind \in {"Lowest", "LowestAudio", "LowestVideo"})
                => choose_result.ret = Ok(ranked[Len(ranked)])

\* C22's case: the Video capability is requested against records that are
\* all audio-only and not live, and FormatNotFound is returned.
C22_Witness ==
    /\ ChooseCalled
    /\ choose_formats # <<>>
    /\ \A k \in 1..Len(choose_formats) :
          /\ choose_formats[k].has_audio
          /\ ~choose_formats[k].has_video
          /\ ~choose_formats[k].is_live
    /\ choose_options.filter.kind = "Video"
    /\ choose_result.ret = FormatNotFound

(***************************************************************************)
(* Claims about get_functions, checked under SpecFunctionsSeq (sequential  *)
(* calls) and SpecFunctions (concurrent callers).                          *)
(***************************************************************************)
\* functions is what extract_functions finds in the script behind url.
FunctionsBehind(url, functions) == extract_functions(PlayerScript(url)) = Vec(functions)

SlotHolds(slot, url) ==
    /\ slot.kind = "Some"
    /\ slot.url = url
    /\ FunctionsBehind(url, slot.functions)

\* C23: in a sequential run of get_functions calls, a call fetches and
\* extracts exactly when the slot is empty or holds another resolved URL;
\* a call for the cached URL returns the cached functions without
\* fetching; after a successful call the slot holds exactly that call's URL
\* and the functions extracted from its script.
C23_CacheLifecycle ==
    [][\A p \in Callers :
        /\ (callers[p].pc = "check" /\ callers'[p].pc # "check") =>
              IF FUNCTIONS = NoFunctions \/ ~SlotHolds(FUNCTIONS, callers[p].url)
              THEN callers'[p].pc = "fetch"
              ELSE /\ callers'[p].pc = "returned"
                   /\ callers'[p].ret = OkFunctions(FUNCTIONS.functions)
                   /\ callers'[p].fetches = 0
        /\ (callers[p].pc = "fetch" /\ callers'[p].pc # "fetch") =>
              callers'[p].fetches = 1
        /\ (callers[p].pc # "returned" /\ callers'[p].pc = "returned"
                /\ callers'[p].ret.kind = "Ok") =>
              /\ SlotHolds(FUNCTIONS', callers'[p].url)
              /\ FunctionsBehind(callers'[p].url, callers'[p].ret.functions)
              /\ FUNCTIONS'.functions = callers'[p].ret.functions
      ]_vars

\* C23's case: after a call has replaced the slot's entry, a call for the
\* cached URL has returned the cached functions without fetching.
C23_Witness ==
    \E p \in Callers :
        /\ callers[p].pc = "returned"
        /\ callers[p].ret.kind = "Ok"
        /\ callers[p].fetches = 0
        /\ get_functions_calls = 3
        /\ callers[p].url[2] = "/s/b.js"

\* C24: under every interleaving of concurrent get_functions calls, each
\* successful call returns the functions extracted from the script of its
\* own reference, and the shared slot is always either empty or a URL
\* together with the functions extracted from the script behind that URL.
C24_NoMixedPair ==
    /\ FUNCTIONS = NoFunctions \/ SlotHolds(FUNCTIONS, FUNCTIONS.url)
    /\ \A p \in Callers :
          (callers[p].pc = "returned" /\ callers[p].ret.kind = "Ok") =>
              FunctionsBehind(ResolveUrl(callers[p].html5player),
                              callers[p].ret.functions)

\* C24's case: one caller has fetched its script and is about to write
\* while another caller, for a different URL, has fetched, written and
\* returned.
C24_Witness ==
    \E p, q \in Callers :
        /\ callers[p].pc = "returned"
        /\ callers[p].ret.kind = "Ok"
        /\ callers[p].fetches = 1
        /\ callers[q].pc = "update"
        /\ callers[q].url # callers[p].url
        /\ FUNCTIONS = SomeFunctions(callers[p].url, callers[p].ret.functions)

(***************************************************************************)
(* Claims about batches of parse_video_formats, checked under SpecBatches. *)
(***************************************************************************)
\* The metadata whose standard list is formats and whose adaptive list is
\* empty.
InfoOf(formats) ==
    [streamingData |-> [formats |-> JsonArray(formats),
                        adaptiveFormats |-> JsonArray(<<>>)]]

\* C25: every parse_video_formats call starts with an empty ValueCache and
\* an empty context slot of its own and discards both when it returns, so
\* whatever other calls run before it or beside it, a call returns what it
\* returns when it runs alone.
C25_BatchOwnsCaches ==
    \A b \in Batches :
        /\ (batches[b].pc = "running" /\ batches[b].i = 1) =>
              batches[b].caches = Caches({}, NoContext)
        /\ batches[b].pc # "running" => batches[b].caches = Caches({}, NoContext)
        /\ batches[b].pc = "returned" =>
              batches[b].ret =
                  parse_video_formats(InfoOf(batches[b].formats), BatchFunctions(b))

\* C25's case: a call has returned the repaired URL of a record while the
\* other call, whose script differs, holds a result for the same raw n in
\* its cache.
C25_Witness ==
    \E b, o \in Batches :
        /\ b # o
        /\ batches[b].pc = "returned"
        /\ batches[b].ret.kind = "Some"
        /\ batches[b].ret.formats # <<>>
        /\ batches[o].pc = "running"
        /\ batches[o].caches.n_transform_cache # {}
        /\ \E k \in 1..Len(batches[b].formats), j \in 1..(batches[o].i - 1) :
              batches[b].formats[k] = batches[o].formats[j]

(***************************************************************************)
(* Further claims about extract_functions, checked under SpecExtract.      *)
(***************************************************************************)
\* The name each role's anchor yields (the n-transform name looked up in
\* its array when the anchor holds an indexed name).
DecipherName(body) == between(body, DecipherLeft, DecipherRight)
NcodeName(body) ==
    LET first_name == between(body, NcodeLeft, NcodeRight) IN
    IF Find(first_name, <<"[">>) # NotFound
    THEN between(body, <<"var", " ">> \o BeforeBracket(first_name) \o <<"=", "[">>,
                 <<"]">>)
    ELSE first_name

\* The three steps of a role succeed: the anchor yields a name, the
\* definition site name=function(a) is found, and the balanced extraction
\* of what follows returns a match.
StepsSucceed(body, name) ==
    /\ name # <<>>
    /\ Find(body, name \o FunctionA) # NotFound
    /\ LET ndx == Find(body, name \o FunctionA)
           cut == cut_after_js(Slice(body, ndx + Len(name \o FunctionA), Len(body)))
       IN cut # CutNone /\ cut # CutPanic

\* C26: for each role independently, if the name anchor is not found, the
\* definition site is not found or the balanced extraction returns no
\* match, extract_functions pushes no pair for that role, leaves the other
\* role's pair as it is, and returns normally.
C26_FailedRoleOmitted ==
    ExtractCalled =>
        /\ extract_result # Panicked
        /\ extract_result.v =
              (IF StepsSucceed(extract_body, DecipherName(extract_body))
               THEN extract_decipher(extract_body).v ELSE <<>>)
              \o (IF StepsSucceed(extract_body, NcodeName(extract_body))
                  THEN extract_ncode(extract_body).v ELSE <<>>)

(***************************************************************************)
(* Further claims about ncode, checked under SpecNcode.                    *)
(***************************************************************************)
\* The last call's URL has one n value, the source is not empty and its
\* function returns a string for that value.
C27_Case ==
    /\ NcodeCalled
    /\ Cardinality(NValues(ncode_call.url)) = 1
    /\ ncode_script[2] # ""
    /\ \A n \in NValues(ncode_call.url) :
          ScriptFunction(ncode_script[2], ncode_script[1], n).kind = "Str"

\* C27: for every URL with an n query parameter, at any position in the
\* query, and a non-empty source whose function returns a string r for its
\* value, ncode returns the URL with n set to r and every other parameter
\* unchanged in name, value and order, and the ValueCache maps the raw n to r.
C27_SetsNParameter ==
    C27_Case =>
        \A n \in NValues(ncode_call.url) :
            LET r == ScriptFunction(ncode_script[2], ncode_script[1], n).v
                url == ncode_call.url
            IN /\ ncode_call.ret.kind = "url"
               /\ ncode_call.ret.base = url.base
               /\ ncode_call.ret.query =
                      [i \in 1..Len(url.query) |->
                          IF url.query[i][1] = K_n THEN <<K_n, r>> ELSE url.query[i]]
               /\ <<n, r>> \in n_transform_cache

\* C28: within one batch the n-transform source is compiled into an engine
\* context at most once, however many distinct n values the batch holds: a
\* call made when the ValueCache already holds a result, which an earlier
\* call of the batch computed with a context compiled from the batch's
\* source, compiles nothing.
C28_CompiledAtMostOnce ==
    (NcodeCalled /\ ncode_call.cache_before # {}) => ~ncode_call.compiled

(***************************************************************************)
(* Further claims about decipher, checked under SpecDecipher.              *)
(***************************************************************************)
\* C29: for every argument string, including one that holds a double quote
\* or a backslash, the transformer invokes the extracted function with
\* exactly that string as its argument value: what the engine evaluates is
\* the function applied to the argument.
C29_ArgumentPassedAsValue ==
    (DecipherCalled /\ decipher_call.invoked) =>
        EvalCall(NewContext(CallSource), CallName, AsStr(CallArgs[K_s]).txt)
            = ScriptFunction(CallSource, CallName, AsStr(CallArgs[K_s]).txt)

(***************************************************************************)
(* Further claims about cut_after_js, checked under SpecCut.               *)
(***************************************************************************)
\* The input begins with an opening bracket, holds a '/' and no quote,
\* backslash or '*': the only lexical decision is what each '/' is.  The
\* reference, which takes '/' for a division exactly when the last
\* non-whitespace byte before it is alphanumeric, finds a balanced prefix.
C30_Case ==
    /\ CutCalled
    /\ \E i \in 1..Len(mixed_json) : mixed_json[i] = "/"
    /\ \A i \in 1..Len(mixed_json) :
          ~IsQuote(mixed_json[i]) /\ mixed_json[i] \notin {BACKSLASH, "*"}
    /\ RefCut(mixed_json).kind = "Some"

\* C30: a '/' that does not start a block comment is a division exactly
\* when the last non-whitespace byte before it is alphanumeric; otherwise,
\* in particular after an opening bracket, it opens a regex literal whose
\* content up to the next '/' is skipped without counting brackets.
C30_SlashAfterNonAlphanumericIsRegex ==
    C30_Case => cut_result = RefCut(mixed_json)

(***************************************************************************)
(* Further claims about choose_format, checked under SpecChoose.           *)
(***************************************************************************)
\* The keys of the audio and video policies as the values they denote.
AudioKeys(form) ==
    LET audio == IF form.audio_bitrate = Absent THEN U64(0, 0) ELSE form.audio_bitrate
    IN <<audio.hi, audio.lo, EncodingRank(AUDIO_ENCODING_RANKS, form.codecs)>>
VideoKeys(form) ==
    <<QualityLabelKey(form.quality_label), form.bitrate.hi, form.bitrate.lo,
      EncodingRank(VIDEO_ENCODING_RANKS, form.codecs)>>

\* C31: under HighestAudio (LowestAudio) the selected record is the first
\* (last) of the candidates passing the Audio filter ordered by
\* (audioBitrate, audio-codec rank) only, under HighestVideo (LowestVideo)
\* the first (last) of the candidates passing the Video filter ordered by
\* (quality label, bitrate, video-codec rank) only; no other key of the
\* general ranking has a say.
C31_PolicyKeysOnly ==
    ChooseCalled =>
        LET kind == choose_options.quality.kind
            survivors == Survivors(choose_formats, choose_options)
            ranked == choose_result.ranked
        IN /\ kind \in {"HighestAudio", "LowestAudio"} =>
                 StablyRanked(survivors, ranked, AudioKeys)
           /\ kind \in {"HighestVideo", "LowestVideo"} =>
                 StablyRanked(survivors, ranked, VideoKeys)
           /\ (kind \in {"HighestAudio", "HighestVideo"} /\ ranked # <<>>) =>
                 choose_result.ret = Ok(ranked[1])
           /\ (kind \in {"LowestAudio", "LowestVideo"} /\ ranked # <<>>) =>
                 choose_result.ret = Ok(ranked[Len(ranked)])

\* C32: under Custom(filter, comparator) the selected record is the first,
\* in the order of the caller's comparator alone, of the input records that
\* pass the caller's custom filter or are live; the general capability
\* filter, the HLS step and the general ranking keys have no say, also when
\* the comparator reports two records as equal.
C32_CustomAlone ==
    (ChooseCalled /\ choose_options.quality.kind = "Custom") =>
        LET custom == choose_options.quality
            passing == SelectSeq(choose_formats,
                           LAMBDA x : Capable(custom.filter, x) \/ x.is_live)
        IN choose_result.ret = FirstOf(sort_by(passing, custom.func))

\* a is larger than b as unsigned 64-bit values.
U64Greater(a, b) == a.hi > b.hi \/ (a.hi = b.hi /\ a.lo > b.lo)

AudioBitrateOf(form) ==
    IF form.audio_bitrate = Absent THEN U64(0, 0) ELSE form.audio_bitrate

\* C33: of two records equal on every higher-priority key of the general
\* ranking, the one with the larger bitrate (then the larger audioBitrate)
\* ranks first, for every value the fields can hold, 2^31 and above
\* included.
C33_BitrateOrderKept ==
    ChooseCalled =>
        \A i, j \in 1..Len(choose_result.sorted) :
            LET a == choose_result.sorted[i]
                b == choose_result.sorted[j]
            IN (i < j /\ SubSeq(RankKeys(a), 1, 6) = SubSeq(RankKeys(b), 1, 6)) =>
                  /\ ~U64Greater(b.bitrate, a.bitrate)
                  /\ a.bitrate = b.bitrate =>
                        ~U64Greater(AudioBitrateOf(b), AudioBitrateOf(a))

(***************************************************************************)
(* Further claims about get_functions, checked under SpecFunctions and     *)
(* SpecFunctionsSeq.                                                       *)
(***************************************************************************)
\* C34: get_functions holds neither the read guard nor the write guard of
\* the shared slot while the player script is fetched, so in every
\* interleaving a caller whose URL is cached is let in by the lock while
\* another caller's fetch is in flight.
C34_NoGuardDuringFetch ==
    /\ \A p \in Callers : callers[p].pc = "fetch" => guards[p] = {}
    /\ \A p \in Callers :
          (callers[p].pc = "check" /\ FetchInFlight(p)) => CanRead(p)

\* C34's case: a caller was served from the slot while another caller's
\* fetch was in flight, and has returned the cached functions.
C34_Witness ==
    /\ served_during_fetch
    /\ \E p \in Callers :
          /\ callers[p].pc = "returned"
          /\ callers[p].ret.kind = "Ok"
          /\ callers[p].fetches = 0
          /\ FetchInFlight(p)

\* A step in which caller p returns the error of a failed fetch.
ReturnsFetchError(p) ==
    /\ callers[p].pc = "fetch"
    /\ callers'[p].pc = "returned"
    /\ callers'[p].ret.kind = "Err"

\* C35: when the fetch of the player script fails, get_functions returns
\* that error after exactly one fetch attempt, and no step of the failing
\* call changes the shared slot: the slot only changes in the write step of
\* a call that fetched successfully.
C35_FailedFetchLeavesCache ==
    [][/\ \A p \in Callers :
            ReturnsFetchError(p) =>
                /\ callers'[p].ret \in get_html(callers[p].url)
                /\ callers'[p].fetches = 1
                /\ FUNCTIONS' = FUNCTIONS
       /\ (FUNCTIONS' # FUNCTIONS) =>
            \E p \in Callers :
                /\ callers[p].pc = "update"
                /\ callers'[p].ret.kind = "Ok"
                /\ callers'[p].fetches = 1]_vars

\* C35's case: a call has returned a fetch error for one URL while the
\* slot still holds the functions cached for another URL.
C35_Witness ==
    \E p \in Callers :
        /\ callers[p].pc = "returned"
        /\ callers[p].ret.kind = "Err"
        /\ callers[p].fetches = 1
        /\ FUNCTIONS.kind = "Some"
        /\ FUNCTIONS.url # callers[p].url
        /\ SlotHolds(FUNCTIONS, FUNCTIONS.url)

(***************************************************************************)
(* A further claim about parse_video_formats, checked under SpecParse.     *)
(***************************************************************************)
\* C36: every record parse_video_formats returns was converted from an
\* object with no signatureCipher and no cipher field and with the resolved
\* URL as url; its has_video is true exactly when the raw record had
\* qualityLabel, its has_audio exactly when the raw record had audioBitrate
\* or audioQuality, and is_live, is_hls and is_dash_mpd are those of the
\* resolved URL.
C36_ReturnedRecordFields ==
    (ParseCalled /\ parse_result.kind = "Some") =>
        /\ Len(parse_result.objects) = Len(parse_result.formats)
        /\ \A k \in 1..Len(parse_result.formats) :
              LET f == parse_result.formats[k]
                  o == parse_result.objects[k]
                  raw == SourceOf(f)
              IN
              /\ o.signatureCipher = Absent /\ o.cipher = Absent
              /\ o.url = f.url
              /\ f.url.kind = "url"
              /\ f.has_video = raw.qualityLabel
              /\ f.has_audio = (raw.audioBitrate \/ raw.audioQuality)
              /\ f.is_live = IsLiveText(f.url)
              /\ f.is_hls = IsHlsText(f.url)
              /\ f.is_dash_mpd = IsDashText(f.url)

\* C36's case: a returned record came from a signatureCipher whose resolved
\* URL is a live stream, and another from a record holding audioBitrate
\* without audioQuality.
C36_Witness ==
    /\ ParseCalled
    /\ parse_result.kind = "Some"
    /\ \E k \in 1..Len(parse_result.formats) :
          /\ SourceOf(parse_result.formats[k]).signatureCipher # Absent
          /\ SourceOf(parse_result.formats[k]).url = Absent
          /\ parse_result.formats[k].is_live
    /\ \E k \in 1..Len(parse_result.formats) :
          /\ SourceOf(parse_result.formats[k]).audioBitrate
          /\ ~SourceOf(parse_result.formats[k]).audioQuality
          /\ parse_result.formats[k].has_audio

(***************************************************************************)
(* A further claim about decipher, checked under SpecDecipher.             *)
(***************************************************************************)
\* The call was made on a cipher query string that decodes to a url field
\* and an s field.
CipheredCall ==
    /\ DecipherCalled
    /\ QsDecodes(decipher_call.url)
    /\ K_s \in DOMAIN QsMap(decipher_call.url)
    /\ K_url \in DOMAIN QsMap(decipher_call.url)

\* The call's source differs from the key of the slot it was given and does
\* not compile.
FailedCompileCall ==
    /\ CipheredCall
    /\ CallSource # ""
    /\ ~SlotReuses(decipher_call.cache_before, CallSource)
    /\ ~Compiles(CallSource)

\* C37: when a decipher call's source differs from the slot's key and
\* compiling it fails, the slot is left exactly as it was; the slot never
\* holds a source that does not compile, so with such a source every call
\* on a ciphered record makes a new compile attempt, evaluates no call
\* expression and returns the record's own url field.
C37_FailedCompileKeepsSlot ==
    /\ FailedCompileCall => cipher_cache = decipher_call.cache_before
    /\ cipher_cache.kind = "Some" => Compiles(cipher_cache.key)
    /\ (CipheredCall /\ CallSource # "" /\ ~Compiles(CallSource)) =>
          /\ decipher_call.compiled
          /\ ~decipher_call.invoked
          /\ decipher_call.ret = AsStr(QsMap(decipher_call.url)[K_url])

\* C37's case: a source that does not compile was given on a slot holding
\* the context of another source, and the slot still holds it.
C37_Witness ==
    /\ FailedCompileCall
    /\ decipher_call.cache_before.kind = "Some"
    /\ cipher_cache.kind = "Some"
    /\ decipher_call.compiled

(***************************************************************************)
(* Claims about the order of the filters of choose_format and about what   *)
(* it returns, checked under SpecChoose.                                   *)
(***************************************************************************)
AudioOrVideoPolicy ==
    choose_options.quality.kind
        \in {"HighestAudio", "LowestAudio", "HighestVideo", "LowestVideo"}

NoLiveInput == \A k \in 1..Len(choose_formats) : ~choose_formats[k].is_live

\* C38: for HighestAudio, LowestAudio, HighestVideo and LowestVideo the
\* policy's filter works on what the caller's CapabilityFilter left, so
\* every returned record is live or satisfies both predicates; with the
\* audio+video CapabilityFilter an input without live records yields
\* FormatNotFound.
C38_CallerFilterFirst ==
    (ChooseCalled /\ AudioOrVideoPolicy) =>
        /\ \A k \in 1..Len(choose_result.ranked) :
              /\ InSeq(choose_result.ranked[k], choose_result.filtered)
              /\ \/ choose_result.ranked[k].is_live
                 \/ /\ Capable(choose_options.filter, choose_result.ranked[k])
                    /\ Capable(PolicyFilter(choose_options), choose_result.ranked[k])
        /\ choose_result.ret # FormatNotFound =>
              \/ choose_result.ret.format.is_live
              \/ /\ Capable(choose_options.filter, choose_result.ret.format)
                 /\ Capable(PolicyFilter(choose_options), choose_result.ret.format)
        /\ (choose_options.filter.kind = "VideoAudio" /\ NoLiveInput) =>
              choose_result.ret = FormatNotFound

\* C38's case: the audio+video CapabilityFilter with an audio-only or
\* video-only policy, on an input without live records that holds a record
\* the policy's filter alone would keep; FormatNotFound is returned.
C38_Witness ==
    /\ ChooseCalled
    /\ AudioOrVideoPolicy
    /\ choose_options.filter.kind = "VideoAudio"
    /\ NoLiveInput
    /\ \E k \in 1..Len(choose_formats) :
          Capable(PolicyFilter(choose_options), choose_formats[k])
    /\ choose_result.ret = FormatNotFound

\* C39: for every input list, options and policy, choose_format leaves the
\* caller's list unchanged (same records, same order), and a record it
\* returns is equal to one of the records of that list.
C39_InputUntouched ==
    [][(choose_result' # choose_result) =>
          /\ choose_formats' = choose_formats
          /\ choose_result'.ret # FormatNotFound =>
                InSeq(choose_result'.ret.format, choose_formats)]_vars

\* C39's case: a call whose working list was filtered and reordered
\* returned a record, and the caller's list still holds every record in
\* its order.
C39_Witness ==
    /\ ChooseCalled
    /\ choose_result.ret # FormatNotFound
    /\ Len(choose_result.ranked) < Len(choose_formats)
    /\ Len(choose_result.ranked) >= 2
    /\ choose_result.ranked[1] # choose_formats[1]
    /\ InSeq(choose_result.ret.format, choose_formats)

====
